---- MODULE Spec2Model ----
(***************************************************************************)
(* Rebalancing order execution of jlp-hedge-trading:                       *)
(*   services/maker_order_executor.py  MakerOrderExecutor                  *)
(*   services/order_executor.py        OrderExecutor (dispatcher, market)  *)
(*   clients/asterdex_client.py        the exchange gateway                *)
(*                                                                         *)
(* Units.  Quantities are integers counting 10^-4 of the base asset,       *)
(* prices are integers counting 10^-3 USD, notional values are             *)
(* quantity * price (10^-7 USD).  Time is counted in ticks since the       *)
(* start of the running clip (start_time = 0); every sleep and every       *)
(* gateway call takes at least one tick.                                   *)
(***************************************************************************)
EXTENDS Integers, Sequences, FiniteSets, TLC

(* ------------------------------ bounds -------------------------------- *)
\* clip budget, single-order wait and replace budget, in ticks / counts
TotalTimeout == 5
OrderTimeout == 3
MaxIterations == 1
\* a gateway call takes 1..MaxLatency ticks
MaxLatency == 1
\* the exchange accepts at most MaxOrders orders in one execution
MaxOrders == 2

(* ------------------------- program constants -------------------------- *)
QtyScale == 10 ^ 4
PartialFillThresholdPct == 95
PriceToleranceE4 == 2
MarketSuccessPct == 95
DefaultQuantityPrecision == 2
DefaultPricePrecision == 2
PriceScale == 10 ^ 3

Abs(x) == IF x < 0 THEN -x ELSE x

\* Decimal.to_integral_value() under the default context: ROUND_HALF_EVEN
RoundHalfEven(n, d) ==
    LET q == n \div d
        r == n % d
    IN  IF 2 * r < d THEN q
        ELSE IF 2 * r > d THEN q + 1
        ELSE IF q % 2 = 0 THEN q ELSE q + 1

SYMBOL_MAPPING(symbol) ==
    CASE symbol = "SOL" -> "SOLUSDT"
      [] symbol = "ETH" -> "ETHUSDT"
      [] symbol = "BTC" -> "BTCUSDT"
      [] OTHER -> symbol \o "USDT"

QUANTITY_PRECISION(trading_pair) ==
    CASE trading_pair = "SOLUSDT" -> 2
      [] trading_pair = "ETHUSDT" -> 3
      [] trading_pair = "BTCUSDT" -> 3
      [] OTHER -> DefaultQuantityPrecision

\* MIN_QUANTITY in quantity units (0.01 -> 100, 0.001 -> 10)
MIN_QUANTITY(trading_pair) ==
    CASE trading_pair = "SOLUSDT" -> QtyScale \div 100
      [] trading_pair = "ETHUSDT" -> QtyScale \div 1000
      [] trading_pair = "BTCUSDT" -> QtyScale \div 1000
      [] OTHER -> QtyScale \div 1000

price_precision(trading_pair) ==
    CASE trading_pair = "SOLUSDT" -> 2
      [] trading_pair = "ETHUSDT" -> 2
      [] trading_pair = "BTCUSDT" -> 1
      [] OTHER -> DefaultPricePrecision

\* one step of the pair's quantity grid, in quantity units
QtyStep(trading_pair) == QtyScale \div (10 ^ QUANTITY_PRECISION(trading_pair))

\* mutant: the quantity is cut at the minimum only, not rounded
_round_quantity_Unrounded(trading_pair, quantity) ==
    IF quantity < MIN_QUANTITY(trading_pair) THEN 0 ELSE quantity

_round_quantity(trading_pair, quantity) ==
    LET unit == QtyStep(trading_pair)
        rounded == RoundHalfEven(quantity, unit) * unit
    IN  IF rounded < MIN_QUANTITY(trading_pair) THEN 0 ELSE rounded

\* OrderExecutor._round_quantity: the same code over the same tables
OrderExecutor_round_quantity(trading_pair, quantity) ==
    LET unit == QtyScale \div (10 ^ QUANTITY_PRECISION(trading_pair))
        rounded == RoundHalfEven(quantity, unit) * unit
    IN  IF rounded < MIN_QUANTITY(trading_pair) THEN 0 ELSE rounded

\* mutant: the price is sent as it was read
_round_price_Unrounded(trading_pair, price) == price

\* _round_price: to_integral_value() of price * 10^precision
_round_price(trading_pair, price) ==
    LET unit == PriceScale \div (10 ^ price_precision(trading_pair))
    IN  RoundHalfEven(price, unit) * unit


(* ------------------------ configuration (model) ----------------------- *)
\* MakerOrderConfig split settings, as notional values (quantity * price);
\* the fields are configurable, and the values here (2.5, 1.4 and 1.6 USD)
\* keep the defaults' order min < max < threshold at the scale of the inputs
split_order_enabled == TRUE
split_order_random == TRUE
split_order_threshold == 25 * 10 ^ 6
split_order_min_value == 14 * 10 ^ 6
split_order_max_value == 16 * 10 ^ 6

\* MakerOrderConfig.min_remaining_ratio, in percent
min_remaining_ratio == 5

\* the configuration the executor is constructed with in Spec
DefaultConfig ==
    [ price_tolerance |-> PriceToleranceE4,
      min_remaining_ratio |-> min_remaining_ratio,
      split_order_enabled |-> split_order_enabled,
      split_order_threshold |-> split_order_threshold,
      split_order_min_value |-> split_order_min_value,
      split_order_max_value |-> split_order_max_value,
      split_order_random |-> split_order_random ]

\* the values random.uniform(min_val, max_val) is sampled at
SplitDraws(min_val, max_val) ==
    { min_val, (min_val + max_val) \div 2, max_val }

(* ----------------------------- inputs --------------------------------- *)
Symbols == {"SOL"}
\* signed deltas, in quantity units: -0.02, -0.004, 0, 0.015
DeltaInputs == {-200, -40, 0, 150}
\* top of book <<bid1, ask1>> in price units; the exchange's tick can be
\* finer than the engine's price_precision (the ask 149.998)
Books == { <<149950, 149960>>, <<149990, 149998>>, <<150000, 150010>> }
Latencies == 1 .. MaxLatency

VARIABLES
    \* the call being served
    symbol, delta, use_maker_order, use_market_order,
    \* self.config of the maker executor
    config,
    \* execute_all: the input list and the results appended so far
    deltas, results,
    \* DeltaNeutralStrategy.is_running
    is_running,
    \* a helper applied on its own: its arguments and what it returned
    fn_in, fn_out,
    \* the results of the clips that have returned to execute_delta
    clip_results,
    \* control
    pc,
    \* MakerOrderExecutor.execute_delta
    rounded_qty, split_quantities, remaining_value, split_price, clip_i,
    agg_filled, agg_iterations,
    \* _execute_maker_loop
    target_quantity, total_filled, remaining, iterations,
    current_order_id, current_order_price, best_price, filled,
    order_start, now, exit,
    \* what _get_order_status returned when the loop's last step was a
    \* status query ("" after any other step)
    last_status,
    \* the exchange: orders by id; what the engine sent and called
    orders, lastReq, placeCalls, lastCall,
    \* the ExecutionResult returned
    result

execVars == << rounded_qty, split_quantities, remaining_value, split_price,
               clip_i, agg_filled, agg_iterations, clip_results >>
clipVars == << target_quantity, total_filled, remaining, iterations,
               current_order_id, current_order_price, best_price, filled,
               order_start, now, exit, last_status >>
inputVars == << symbol, delta, use_maker_order, use_market_order, config,
               deltas, results, is_running, fn_in, fn_out >>
ghostVars == << lastReq, placeCalls, lastCall >>
vars == << inputVars, pc, execVars, clipVars, orders, ghostVars, result >>

trading_pair == SYMBOL_MAPPING(symbol)

(* --------------------------- pure helpers ----------------------------- *)
\* mutant: the comparison is turned around
SideOf_Flipped(d) == IF d < 0 THEN "SELL" ELSE "BUY"

\* execute_delta: side and reduce_only from the sign of delta
SideOf(d) == IF d > 0 THEN "SELL" ELSE "BUY"
ReduceOnlyOf(d) == d < 0
side == SideOf(delta)

\* mutant: the time-in-force is left at the client's default
MakerOrderRequest_GTC(sd, qty, price, ro) ==
    [ path |-> "maker", side |-> sd, type |-> "LIMIT", tif |-> "GTC",
      quantity |-> qty, price |-> price, position_side |-> "SHORT",
      reduce_only |-> ro ]

\* _place_maker_order: the request handed to client.place_order
MakerOrderRequest(sd, qty, price, ro) ==
    [ path |-> "maker", side |-> sd, type |-> "LIMIT", tif |-> "GTX",
      quantity |-> qty, price |-> price, position_side |-> "SHORT",
      reduce_only |-> ro ]

\* _open_short / _close_short with use_market_order
MarketOrderRequest(sd, qty, ro) ==
    [ path |-> "market", side |-> sd, type |-> "MARKET", tif |-> "",
      quantity |-> qty, price |-> 0, position_side |-> "SHORT",
      reduce_only |-> ro ]

\* _open_short / _close_short without use_market_order (limit, IOC)
IocOrderRequest(sd, qty, price, ro) ==
    [ path |-> "market", side |-> sd, type |-> "LIMIT", tif |-> "IOC",
      quantity |-> qty, price |-> price, position_side |-> "SHORT",
      reduce_only |-> ro ]

NoRequest ==
    [ path |-> "", side |-> "", type |-> "", tif |-> "", quantity |-> 0,
      price |-> 0, position_side |-> "", reduce_only |-> FALSE ]

NoCall == [ op |-> "", id |-> 0, raised |-> FALSE ]
Call(op, id) == [ op |-> op, id |-> id, raised |-> FALSE ]
\* a call of the client that raised where the loop catches it
CallRaised(op, id) == [ op |-> op, id |-> id, raised |-> TRUE ]

\* mutant: only the tolerance rule, no favourable chase
_should_replace_order_ToleranceOnly(sd, order_price, current_best_price) ==
    IF order_price = 0 THEN FALSE
    ELSE Abs(current_best_price - order_price) * 10 ^ 4
            > config.price_tolerance * order_price

\* mutant: a drift equal to the tolerance already replaces
_should_replace_order_AtTolerance(sd, order_price, current_best_price) ==
    IF order_price = 0 THEN FALSE
    ELSE IF sd = "SELL" /\ current_best_price > order_price THEN TRUE
    ELSE IF sd # "SELL" /\ current_best_price < order_price THEN TRUE
    ELSE Abs(current_best_price - order_price) * 10 ^ 4
            >= config.price_tolerance * order_price

\* _should_replace_order
_should_replace_order(sd, order_price, current_best_price) ==
    IF order_price = 0 THEN FALSE
    ELSE IF sd = "SELL" /\ current_best_price > order_price THEN TRUE
    ELSE IF sd # "SELL" /\ current_best_price < order_price THEN TRUE
    ELSE Abs(current_best_price - order_price) * 10 ^ 4
            > config.price_tolerance * order_price

BestOf(sd, book) == IF sd = "SELL" THEN book[2] ELSE book[1]

\* mutant: "elif total_filled >= 0"
Classify_ZeroPartial(filled_qty, target_qty) ==
    IF target_qty > 0
       /\ filled_qty * 100 >= PartialFillThresholdPct * target_qty
    THEN "SUCCESS"
    ELSE IF filled_qty >= 0 THEN "PARTIAL"
    ELSE "FAILED"

\* outcome rule of _execute_maker_loop and execute_delta
Classify(filled_qty, target_qty) ==
    IF target_qty > 0
       /\ filled_qty * 100 >= PartialFillThresholdPct * target_qty
    THEN "SUCCESS"
    ELSE IF filled_qty > 0 THEN "PARTIAL"
    ELSE "FAILED"

\* mutant: the handler's return classifies the fills like the other returns
ClipStatus_Classified == Classify(total_filled, target_quantity)

\* the status of the clip that has just left its loop
ClipStatus == IF exit = "exception" THEN "FAILED"
              ELSE Classify(total_filled, target_quantity)

\* MakerExecutionResult.error of the clip: str(e) of the exception caught by
\* the handler (line 628), None (here "") on the return after the loop
ClipError == IF exit = "exception" THEN "exception" ELSE ""

(* ----------------------------- exchange ------------------------------- *)
OpenStatuses == {"NEW", "PARTIALLY_FILLED"}
EndedStatuses == {"FILLED", "CANCELED", "EXPIRED", "REJECTED"}

IsOpen(o) == o.status \in OpenStatuses /\ ~o.purged
IsTerminal(o) == o.status \in EndedStatuses \/ o.purged

NewOrder(qty, st) ==
    [ qty |-> qty, executed |-> 0, status |-> st, purged |-> FALSE,
      folded |-> 0, foldCount |-> 0, cancelIssued |-> FALSE ]

\* what get_order answers for order id: <<status, executedQty>>
\* (_get_order_status maps errors to NOT_FOUND or UNKNOWN, both with 0)
StatusAnswers(id) ==
    IF orders[id].purged THEN { <<"NOT_FOUND", 0>>, <<"UNKNOWN", 0>> }
    ELSE { <<orders[id].status, orders[id].executed>>, <<"UNKNOWN", 0>> }


\* what cancel_order does to order id: <<returned, orders afterwards>>;
\* "raise" is an exception other than AsterDexError leaving the client
CancelOutcomes(id) ==
    LET issued == [orders EXCEPT ![id].cancelIssued = TRUE]
        canceled == [issued EXCEPT ![id].status = "CANCELED"]
    IN  IF IsOpen(orders[id])
        THEN { <<"true", canceled>>, <<"false", issued>>,
               <<"false", canceled>>, <<"raise", issued>> }
        ELSE { <<"false", issued>>, <<"raise", issued>> }

\* the engine folds amt of order id into total_filled
Folded(ords, id, amt) ==
    IF amt > 0
    THEN [ords EXCEPT ![id].folded = @ + amt, ![id].foldCount = @ + 1]
    ELSE ords

\* the positions at which no execute_delta call is running
IdlePcs == {"start", "returned", "all_done", "fn_start", "fn_deltas",
            "fn_done"}

InProgress == pc \notin IdlePcs

\* the granularity of the executedQty the gateway reports: get_order hands
\* the response's executedQty on as a Decimal, and _get_order_status and the
\* loop take it as it comes, so it need not lie on the engine's own
\* QUANTITY_PRECISION grid; half a step stands for any finer lot
FillStep(pair) == QtyStep(pair) \div 2

\* a resting order trades
ExchangeFill ==
    /\ InProgress
    /\ \E id \in DOMAIN orders :
         /\ IsOpen(orders[id])
         /\ \E k \in 1 .. ((orders[id].qty - orders[id].executed)
                               \div FillStep(trading_pair)) :
              LET e == orders[id].executed + k * FillStep(trading_pair)
              IN  orders' = [orders EXCEPT
                     ![id].executed = e,
                     ![id].status = IF e = orders[id].qty THEN "FILLED"
                                    ELSE "PARTIALLY_FILLED"]
    /\ UNCHANGED << inputVars, pc, execVars, clipVars, ghostVars, result >>

\* the order the engine is tracking is ended by the exchange or out of band
\* (orders the engine no longer tracks stay open: the worst case)
ExchangeEnd ==
    /\ InProgress
    /\ \E id \in {current_order_id} \cap DOMAIN orders,
          st \in {"CANCELED", "EXPIRED"} :
         /\ IsOpen(orders[id])
         /\ orders' = [orders EXCEPT ![id].status = st]
    /\ UNCHANGED << inputVars, pc, execVars, clipVars, ghostVars, result >>

\* an ended order ages out of the exchange's order store
ExchangePurge ==
    /\ InProgress
    /\ \E id \in {current_order_id} \cap DOMAIN orders :
         /\ orders[id].status \in EndedStatuses
         /\ ~orders[id].purged
         /\ orders' = [orders EXCEPT ![id].purged = TRUE]
    /\ UNCHANGED << inputVars, pc, execVars, clipVars, ghostVars, result >>

(* ------------------- MakerOrderExecutor.execute_delta ----------------- *)
Result(st, tq, fq, it) ==
    [ status |-> st, target_quantity |-> tq, filled_quantity |-> fq,
      iterations |-> it ]
NoResult == Result("", 0, 0, 0)

\* mutant: the minimum-quantity check is missing
IsSkipped_Never(rq) == FALSE

\* execute_delta: the minimum-quantity check
IsSkipped(rq) == rq = 0

ExecuteDeltaStart ==
    /\ pc = "start"
    /\ use_maker_order
    /\ LET rq == _round_quantity(trading_pair, Abs(delta))
       IN  /\ rounded_qty' = rq
           /\ IF IsSkipped(rq)
              THEN /\ result' = Result("SKIPPED", Abs(delta), 0, 0)
                   /\ pc' = "returned"
              ELSE /\ result' = result
                   /\ pc' = "exec_depth"
    /\ UNCHANGED << inputVars, split_quantities, remaining_value, split_price,
                    clip_i, agg_filled, agg_iterations, clip_results, clipVars,
                    orders, ghostVars >>

\* execute_delta: the price for splitting, then _split_order's early returns
ExecuteDeltaDepth ==
    /\ pc = "exec_depth"
    /\ lastCall' = Call("get_depth", 0)
    /\ \/ \* the book read failed: current_price = 0, no splitting
          /\ split_quantities' = << rounded_qty >>
          /\ pc' = "clip_start"
          /\ UNCHANGED << remaining_value, split_price >>
       \/ \E b \in Books :
            LET current_price == IF delta > 0 THEN b[2] ELSE b[1]
                order_value == rounded_qty * current_price
            IN  IF ~config.split_order_enabled
                   \/ order_value < config.split_order_threshold
                THEN /\ split_quantities' = << rounded_qty >>
                     /\ pc' = "clip_start"
                     /\ UNCHANGED << remaining_value, split_price >>
                ELSE /\ split_quantities' = << >>
                     /\ remaining_value' = order_value
                     /\ split_price' = current_price
                     /\ pc' = "split"
    /\ UNCHANGED << inputVars, rounded_qty, clip_i, agg_filled, agg_iterations,
                    clip_results, clipVars, orders, lastReq, placeCalls,
                    result >>

\* _round_quantity of the quotient value / price
RoundQuantityOfValue(pair, value, price) ==
    LET unit == QtyStep(pair)
        rounded == RoundHalfEven(value, price * unit) * unit
    IN  IF rounded < MIN_QUANTITY(pair) THEN 0 ELSE rounded

\* mutant: the clip is not cut to the remaining quantity
ClampedQty_Unclamped(pair, split_qty, value_left, price) == split_qty

\* _split_order: "if split_qty > remaining_qty", with
\* remaining_qty = remaining_value / price
ClampedQty(pair, split_qty, value_left, price) ==
    IF split_qty * price > value_left
    THEN RoundQuantityOfValue(pair, value_left, price)
    ELSE split_qty

\* mutant: every pass takes all that remains
SplitValue_AllRemaining(cfg, value_left, draw) == value_left

\* _split_order: the value of the next clip
SplitValue(cfg, value_left, draw) ==
    IF value_left <= cfg.split_order_max_value THEN value_left
    ELSE IF cfg.split_order_random THEN draw
    ELSE (cfg.split_order_min_value + cfg.split_order_max_value) \div 2

\* mutant: the clip is appended and the remaining value kept
RemainingAfter_Kept(value_left, qty, price) == value_left

\* line 178: remaining_value -= float(split_qty * price)
RemainingAfter(value_left, qty, price) == value_left - qty * price

\* _split_order: one pass of its while loop
SplitStep ==
    /\ pc = "split"
    /\ IF remaining_value > 0
       THEN \E draw \in SplitDraws(config.split_order_min_value,
                                    config.split_order_max_value) :
              LET split_value == SplitValue(config, remaining_value, draw)
                  q1 == RoundQuantityOfValue(trading_pair, split_value, split_price)
                  q2 == ClampedQty(trading_pair, q1, remaining_value,
                                   split_price)
              IN  IF q1 > 0
                  THEN IF q2 > 0
                       THEN /\ split_quantities' = Append(split_quantities, q2)
                            /\ remaining_value' =
                                  RemainingAfter(remaining_value, q2, split_price)
                            /\ pc' = "split"
                       ELSE UNCHANGED << split_quantities, remaining_value, pc >>
                  ELSE \* break
                       /\ split_quantities' =
                             IF split_quantities = << >> THEN << rounded_qty >>
                             ELSE split_quantities
                       /\ remaining_value' = 0
                       /\ pc' = "clip_start"
       ELSE /\ split_quantities' =
                  IF split_quantities = << >> THEN << rounded_qty >>
                  ELSE split_quantities
            /\ remaining_value' = 0
            /\ pc' = "clip_start"
    /\ UNCHANGED << inputVars, rounded_qty, split_price, clip_i, agg_filled,
                    agg_iterations, clip_results, clipVars, orders, ghostVars,
                    result >>

\* execute_delta: the next clip enters _execute_maker_loop
ClipStart ==
    /\ pc = "clip_start"
    /\ target_quantity' = split_quantities[clip_i + 1]
    /\ remaining' = split_quantities[clip_i + 1]
    /\ total_filled' = 0
    /\ iterations' = 0
    /\ current_order_id' = 0
    /\ current_order_price' = 0
    /\ best_price' = 0
    /\ filled' = 0
    /\ order_start' = 0
    /\ now' = 0
    /\ exit' = ""
    /\ last_status' = ""
    /\ clip_i' = clip_i + 1
    /\ placeCalls' = 0
    /\ pc' = "top"
    /\ UNCHANGED << inputVars, rounded_qty, split_quantities, remaining_value,
                    split_price, agg_filled, agg_iterations, clip_results,
                    orders, lastReq, lastCall, result >>

\* mutant: the remaining clips are run after a failed one
StopsClips_Never(st) == FALSE

\* execute_delta: "if result.status == FAILED: break"
StopsClips(st) == st = "FAILED"

\* execute_delta: a clip has returned; accumulate, stop on FAILED, classify
ClipReturn ==
    /\ pc = "clip_done"
    /\ agg_filled' = agg_filled + total_filled
    /\ agg_iterations' = agg_iterations + iterations
    /\ clip_results' = Append(clip_results,
                              [ status |-> ClipStatus,
                                filled_quantity |-> total_filled,
                                error |-> ClipError ])
    /\ IF StopsClips(ClipStatus) \/ clip_i = Len(split_quantities)
       THEN /\ result' = Result(Classify(agg_filled', rounded_qty), rounded_qty,
                                agg_filled', agg_iterations')
            /\ pc' = "returned"
       ELSE /\ result' = result
            /\ pc' = "clip_start"
    \* the loop's locals end with its frame
    /\ target_quantity' = 0
    /\ total_filled' = 0
    /\ remaining' = 0
    /\ iterations' = 0
    /\ current_order_id' = 0
    /\ current_order_price' = 0
    /\ best_price' = 0
    /\ filled' = 0
    /\ order_start' = 0
    /\ now' = 0
    /\ exit' = ""
    /\ last_status' = ""
    /\ UNCHANGED << inputVars, rounded_qty, split_quantities, remaining_value,
                    split_price, clip_i, orders, ghostVars >>


(* ---------------- MakerOrderExecutor._execute_maker_loop -------------- *)
\* time.time() after l more ticks; a clip's clock cannot pass TimeCap (each
\* pass checks total_timeout, each wait window order_timeout), and the
\* clock is held there
TimeCap == TotalTimeout + OrderTimeout + 10 * MaxLatency

\* mutant: the clock read by the loop stands still
Tick_Frozen(t, l) == t

Tick(t, l) == IF t + l > TimeCap THEN TimeCap ELSE t + l

\* mutant: the check lets one more latency pass
TimedOut_Late(elapsed) == elapsed > TotalTimeout + MaxLatency

\* the global timeout check at the head of a pass
TimedOut(elapsed) == elapsed > TotalTimeout

\* the while condition
LoopCondition(rem, iters) == rem > 0 /\ iters < MaxIterations

\* mutant: the remaining quantity is sent as it is
PlaceQuantity_Unrounded(rem) == rem

\* the quantity of a new order: the rounded remaining quantity
PlaceQuantity(rem) == _round_quantity(trading_pair, rem)

\* mutant: the slot keeps the order that was just folded
SlotAfterEnded_Kept(id) == id

\* the live-order slot after an order was found ended
SlotAfterEnded(id) == 0

\* lines 440-450 and 486-487: where a pass goes once the replace decision
\* is behind it
Next441(rem, id) ==
    IF PlaceQuantity(rem) = 0 THEN "clip_done"
    ELSE IF id = 0 THEN "place" ELSE "wait"

\* the wait loop's condition, then line 545
WaitNext(t, start) ==
    IF t - start < OrderTimeout THEN "wait" ELSE "timeout_query"

\* leaving the wait loop by break with the order still live (line 540)
AfterBreak(t, start) ==
    IF t - start >= OrderTimeout THEN "timeout_query" ELSE "top"

\* best_price is read only by the placement of the pass that assigned it,
\* order_start only inside the wait window it opened: elsewhere they are 0
LiveBest(nextPc, price) ==
    IF nextPc \in {"replace_query", "replace_cancel", "replace_requery", "place"}
    THEN price ELSE 0
Live(nextPc, t) == IF nextPc \in {"wait", "wait_book"} THEN t ELSE 0

\* mutant: a failed book read reaches the loop's exception handler
AfterBookReadFailure_Fatal == "handler"

\* lines 355-358: "except Exception" around the book read of a pass, then
\* sleep and continue
AfterBookReadFailure == "top"

LoopTop ==
    /\ pc = "top"
    /\ IF ~LoopCondition(remaining, iterations)
       THEN /\ exit' = "while"
            /\ pc' = "clip_done"
            /\ UNCHANGED << now, best_price, order_start, lastCall >>
       ELSE IF TimedOut(now)
       THEN /\ exit' = "timeout"
            /\ pc' = "clip_done"
            /\ UNCHANGED << now, best_price, order_start, lastCall >>
       ELSE /\ \E l \in Latencies :
                 /\ now' = Tick(now, l)
                 /\ \/ \* the book read failed: sleep, next pass
                       /\ lastCall' = CallRaised("get_depth", 0)
                       /\ pc' = AfterBookReadFailure
                       /\ UNCHANGED << best_price, order_start, exit >>
                    \/ \E b \in Books :
                         LET best == _round_price(trading_pair, BestOf(side, b))
                         IN  /\ lastCall' = Call("get_depth", 0)
                             /\ IF current_order_id # 0
                                   /\ _should_replace_order(side,
                                          current_order_price, best)
                                THEN /\ pc' = "replace_query"
                                     /\ UNCHANGED << order_start, exit >>
                                ELSE /\ pc' = Next441(remaining, current_order_id)
                                     /\ order_start' = Live(pc', now')
                                     /\ exit' = IF pc' = "clip_done" THEN "min"
                                                ELSE exit
                             /\ best_price' = LiveBest(pc', best)
    /\ last_status' = ""
    /\ UNCHANGED << inputVars, execVars, target_quantity, total_filled,
                    remaining, iterations, current_order_id,
                    current_order_price, filled, orders, lastReq, placeCalls,
                    result >>

\* mutant: an order that cannot be found counts as not filled
NotFoundFill_Nothing(rem) == 0

\* lines 394-404, 519-529 and 554-564: an order that cannot be found is
\* taken to have filled the whole remainder
NotFoundFill(rem) == rem

\* lines 376-404 (replace = TRUE) and 550-576 (replace = FALSE):
\* the status query before a cancel
QueryBeforeCancel(here, cancelPc, foldEnded) ==
    /\ pc = here
    /\ lastCall' = Call("get_order", current_order_id)
    /\ \E l \in Latencies, ans \in StatusAnswers(current_order_id) :
         LET status == ans[1]
             got == ans[2]
         IN  /\ now' = Tick(now, l)
             /\ last_status' = status
             /\ IF status \in foldEnded
                THEN /\ total_filled' = total_filled + got
                     /\ remaining' = remaining - got
                     /\ orders' = Folded(orders, current_order_id, got)
                     /\ current_order_id' = SlotAfterEnded(current_order_id)
                     /\ current_order_price' = 0
                     /\ filled' = 0
                     /\ pc' = "top"
                ELSE IF status = "NOT_FOUND"
                THEN /\ total_filled' = total_filled + NotFoundFill(remaining)
                     /\ remaining' = remaining - NotFoundFill(remaining)
                     /\ orders' = Folded(orders, current_order_id,
                                         NotFoundFill(remaining))
                     /\ current_order_id' = 0
                     /\ current_order_price' = 0
                     /\ filled' = 0
                     /\ pc' = "top"
                ELSE /\ filled' = got
                     /\ pc' = cancelPc
                     /\ UNCHANGED << total_filled, remaining, orders,
                                     current_order_id, current_order_price >>
    /\ best_price' = LiveBest(pc', best_price)
    /\ order_start' = 0
    /\ UNCHANGED << inputVars, execVars, target_quantity, iterations,
                    exit, lastReq, placeCalls, result >>

ReplaceQuery ==
    QueryBeforeCancel("replace_query", "replace_cancel", EndedStatuses)

TimeoutQuery ==
    QueryBeforeCancel("timeout_query", "timeout_cancel", {"FILLED"})

\* lines 408-420 (afterPc from line 441) and 579-609 (back to the loop head)
CancelOrder(here, requeryPc, replacing) ==
    /\ pc = here
    /\ lastCall' = Call("cancel_order", current_order_id)
    /\ \E l \in Latencies, out \in CancelOutcomes(current_order_id) :
         /\ now' = Tick(now, l)
         /\ IF out[1] = "true"
            THEN /\ total_filled' = total_filled + filled
                 /\ remaining' = remaining - filled
                 /\ orders' = Folded(out[2], current_order_id, filled)
                 /\ iterations' = iterations + 1
                 /\ current_order_id' = 0
                 /\ current_order_price' = 0
                 /\ filled' = 0
                 /\ pc' = IF replacing THEN Next441(remaining', 0) ELSE "top"
                 /\ exit' = IF pc' = "clip_done" THEN "min" ELSE exit
            ELSE /\ orders' = out[2]
                 /\ pc' = IF out[1] = "raise" THEN "handler" ELSE requeryPc
                 /\ UNCHANGED << total_filled, remaining, iterations,
                                 current_order_id, current_order_price,
                                 filled, exit >>
    /\ best_price' = LiveBest(pc', best_price)
    /\ last_status' = ""
    /\ UNCHANGED << inputVars, execVars, target_quantity, order_start,
                    lastReq, placeCalls, result >>

ReplaceCancel == CancelOrder("replace_cancel", "replace_requery", TRUE)

TimeoutCancel == CancelOrder("timeout_cancel", "timeout_requery", FALSE)

\* mutant: a failed cancel is taken to mean that the order filled
FoldAfterFailedCancel_Assumed(status2, filled2, rem) ==
    IF filled2 > 0 THEN filled2 ELSE rem

\* lines 426-431 and 588-593: what is folded after a failed cancel
FoldAfterFailedCancel(status2, filled2, rem) ==
    IF status2 \in {"FILLED", "NOT_FOUND"}
    THEN IF filled2 > 0 THEN filled2 ELSE rem
    ELSE 0

\* lines 423-438 and 585-599: the status query after a failed cancel
RequeryAfterCancel(here) ==
    /\ pc = here
    /\ lastCall' = Call("get_order", current_order_id)
    /\ \E l \in Latencies, ans \in StatusAnswers(current_order_id) :
         LET status2 == ans[1]
             filled2 == ans[2]
             actual_filled == FoldAfterFailedCancel(status2, filled2, remaining)
         IN  /\ now' = Tick(now, l)
             /\ last_status' = status2
             /\ total_filled' = total_filled + actual_filled
             /\ remaining' = remaining - actual_filled
             /\ orders' = Folded(orders, current_order_id, actual_filled)
    /\ current_order_id' = 0
    /\ current_order_price' = 0
    /\ filled' = 0
    /\ iterations' = iterations + 1
    /\ pc' = "top"
    /\ best_price' = 0
    /\ UNCHANGED << inputVars, execVars, target_quantity, order_start, exit,
                    lastReq, placeCalls, result >>

ReplaceRequery == RequeryAfterCancel("replace_requery")

TimeoutRequery == RequeryAfterCancel("timeout_requery")

\* mutant: a placement that did not rest ends the clip through the handler
AfterNoRestingOrder_Fatal(success) == "handler"

\* lines 469-484: after a REJECTED answer (success = TRUE) or a failed
\* placement (success = FALSE) the loop sleeps and continues
AfterNoRestingOrder(success) == "top"

\* lines 449-484: place a new post-only order
PlaceOrder ==
    /\ pc = "place"
    /\ lastReq' = MakerOrderRequest(side, PlaceQuantity(remaining), best_price,
                                    ReduceOnlyOf(delta))
    /\ placeCalls' = placeCalls + 1
    /\ lastCall' = Call("place_order", 0)
    /\ \E l \in Latencies :
         /\ now' = Tick(now, l)
         /\ \/ \* accepted and resting
               /\ Len(orders) < MaxOrders
               /\ orders' = Append(orders, NewOrder(lastReq'.quantity, "NEW"))
               /\ current_order_id' = Len(orders) + 1
               /\ current_order_price' = best_price
               /\ order_start' = now'
               /\ pc' = "wait"
            \/ \* answered with status REJECTED: slot cleared, sleep, next pass
               /\ Len(orders) < MaxOrders
               /\ orders' = Append(orders, NewOrder(lastReq'.quantity, "REJECTED"))
               /\ pc' = AfterNoRestingOrder(TRUE)
               /\ UNCHANGED << current_order_id, current_order_price, order_start >>
            \/ \* success = false: sleep, next pass
               /\ pc' = AfterNoRestingOrder(FALSE)
               /\ UNCHANGED << orders, current_order_id, current_order_price,
                               order_start >>
            \/ \* an exception other than AsterDexError leaves place_order
               /\ pc' = "handler"
               /\ UNCHANGED << orders, current_order_id, current_order_price,
                               order_start >>
    /\ best_price' = 0
    /\ last_status' = ""
    /\ UNCHANGED << inputVars, execVars, target_quantity, total_filled,
                    remaining, iterations, filled, exit, result >>

\* lines 488-531: one poll of the wait window
WaitPoll ==
    /\ pc = "wait"
    /\ lastCall' = Call("get_order", current_order_id)
    /\ \E l \in Latencies, ans \in StatusAnswers(current_order_id) :
         LET status == ans[1]
             got == ans[2]
         IN  /\ now' = Tick(now, l)
             /\ last_status' = status
             /\ IF status \in EndedStatuses
                THEN /\ total_filled' = total_filled + got
                     /\ remaining' = remaining - got
                     /\ orders' = Folded(orders, current_order_id, got)
                     /\ current_order_id' = SlotAfterEnded(current_order_id)
                     /\ current_order_price' = 0
                     /\ pc' = IF current_order_id' # 0
                              THEN AfterBreak(now', order_start) ELSE "top"
                ELSE IF status = "NOT_FOUND"
                THEN /\ total_filled' = total_filled + NotFoundFill(remaining)
                     /\ remaining' = remaining - NotFoundFill(remaining)
                     /\ orders' = Folded(orders, current_order_id,
                                         NotFoundFill(remaining))
                     /\ current_order_id' = 0
                     /\ current_order_price' = 0
                     /\ pc' = "top"
                ELSE /\ pc' = IF status = "PARTIALLY_FILLED" THEN "wait_book"
                              ELSE WaitNext(now', order_start)
                     /\ UNCHANGED << total_filled, remaining, orders,
                                     current_order_id, current_order_price >>
    /\ order_start' = Live(pc', order_start)
    /\ UNCHANGED << inputVars, execVars, target_quantity, iterations,
                    best_price, filled, exit, lastReq, placeCalls, result >>

\* mutant: a failed book read inside the window breaks out of it
AfterWaitBookFailure_Break(t, start) == AfterBreak(t, start)

\* lines 541-542: a failed book read inside the wait window is passed over
\* and the while condition of the window is evaluated next
AfterWaitBookFailure(t, start) == WaitNext(t, start)

\* lines 531-542: the book read for a partially filled order
WaitBook ==
    /\ pc = "wait_book"
    /\ \E l \in Latencies :
         /\ now' = Tick(now, l)
         /\ \/ \* the book read failed: "except Exception: pass"
               /\ lastCall' = CallRaised("get_depth", 0)
               /\ pc' = AfterWaitBookFailure(now', order_start)
            \/ \E b \in Books :
                 /\ lastCall' = Call("get_depth", 0)
                 /\ pc' = IF _should_replace_order(side, current_order_price,
                                                   BestOf(side, b))
                          THEN AfterBreak(now', order_start)
                          ELSE WaitNext(now', order_start)
    /\ order_start' = Live(pc', order_start)
    /\ last_status' = ""
    /\ UNCHANGED << inputVars, execVars, target_quantity, total_filled,
                    remaining, iterations, current_order_id,
                    current_order_price, best_price, filled, exit, orders,
                    lastReq, placeCalls, result >>

\* lines 611-629: the exception handler's best-effort cancel
Handler ==
    /\ pc = "handler"
    /\ IF current_order_id # 0
       THEN /\ lastCall' = Call("cancel_order", current_order_id)
            /\ \E out \in CancelOutcomes(current_order_id) : orders' = out[2]
       ELSE UNCHANGED << lastCall, orders >>
    /\ exit' = "exception"
    /\ pc' = "clip_done"
    /\ last_status' = ""
    /\ UNCHANGED << inputVars, execVars, target_quantity, total_filled,
                    remaining, iterations, current_order_id,
                    current_order_price, best_price, filled, order_start, now,
                    lastReq, placeCalls, result >>


(* ------------------ OrderExecutor.execute_delta (market) -------------- *)
\* the 95 % rule of the market path
MarketStatus(got, quantity) ==
    IF got * 100 >= MarketSuccessPct * quantity THEN "SUCCESS" ELSE "PARTIAL"

\* OrderResult.filled_quantity as place_order computes it from the answer
FilledOfAnswer(type, orig_qty, exec_qty) ==
    IF type = "MARKET" /\ exec_qty = 0 THEN orig_qty ELSE exec_qty

\* executedQty values the exchange may answer for an order of qty
ExecutedAnswers(qty) ==
    { k * FillStep(trading_pair) : k \in 0 .. (qty \div FillStep(trading_pair)) }

\* execute_delta without the maker engine: _open_short / _close_short
MarketExecuteDelta ==
    /\ pc = "start"
    /\ ~use_maker_order
    /\ LET quantity == Abs(delta)
           qty == OrderExecutor_round_quantity(trading_pair, quantity)
           sd == IF delta > 0 THEN "SELL" ELSE "BUY"
           ro == ~(delta > 0)
       IN  IF qty = 0
           THEN /\ result' = Result("SKIPPED", quantity, 0, 0)
                /\ UNCHANGED << orders, lastReq, placeCalls, lastCall >>
           ELSE \/ \* get_ticker_price raised (limit mode only)
                   /\ ~use_market_order
                   /\ result' = Result("FAILED", quantity, 0, 0)
                   /\ lastCall' = Call("get_ticker_price", 0)
                   /\ UNCHANGED << orders, lastReq, placeCalls >>
                \/ \E b \in Books :
                     /\ lastReq' = IF use_market_order
                                   THEN MarketOrderRequest(sd, qty, ro)
                                   ELSE IocOrderRequest(sd, qty, b[1], ro)
                     /\ placeCalls' = placeCalls + 1
                     /\ lastCall' = Call("place_order", 0)
                     /\ \/ \* success = false, or an exception caught
                           /\ result' = Result("FAILED", quantity, 0, 0)
                           /\ orders' = orders
                        \/ \E e \in ExecutedAnswers(qty) :
                             LET got == FilledOfAnswer(lastReq'.type, qty, e)
                             IN  /\ result' = Result(MarketStatus(got, quantity),
                                                     quantity, got, 0)
                                 /\ orders' = Append(orders,
                                       [ NewOrder(qty, IF e = qty THEN "FILLED"
                                                       ELSE IF use_market_order
                                                       THEN "NEW" ELSE "EXPIRED")
                                         EXCEPT !.executed = e ])
    /\ pc' = "returned"
    /\ UNCHANGED << inputVars, execVars, clipVars >>

(* --------------------------- specification ---------------------------- *)
\* no helper is being applied on its own
NoFn == [ op |-> "" ]

\* the delta of the spec's scenario: +12.345 SOL
ExampleDelta == 12345 * 10

Init ==
    /\ symbol \in Symbols
    /\ use_maker_order \in BOOLEAN
    /\ use_market_order \in BOOLEAN
    /\ use_maker_order => use_market_order
    /\ delta \in DeltaInputs \cup (IF use_maker_order THEN {} ELSE {ExampleDelta})
    /\ pc = "start"
    /\ rounded_qty = 0
    /\ split_quantities = << >>
    /\ remaining_value = 0
    /\ split_price = 0
    /\ clip_i = 0
    /\ agg_filled = 0
    /\ agg_iterations = 0
    /\ target_quantity = 0
    /\ total_filled = 0
    /\ remaining = 0
    /\ iterations = 0
    /\ current_order_id = 0
    /\ current_order_price = 0
    /\ best_price = 0
    /\ filled = 0
    /\ order_start = 0
    /\ now = 0
    /\ exit = ""
    /\ last_status = ""
    /\ orders = << >>
    /\ lastReq = NoRequest
    /\ placeCalls = 0
    /\ lastCall = NoCall
    /\ result = NoResult
    /\ config = DefaultConfig
    /\ deltas = << << symbol, delta >> >>
    /\ results = << >>
    /\ is_running = TRUE
    /\ fn_in = NoFn
    /\ fn_out = NoFn
    /\ clip_results = << >>

\* the state of the executor's locals and of the exchange before a call
InitLocals ==
    /\ rounded_qty = 0
    /\ split_quantities = << >>
    /\ remaining_value = 0
    /\ split_price = 0
    /\ clip_i = 0
    /\ agg_filled = 0
    /\ agg_iterations = 0
    /\ clip_results = << >>
    /\ target_quantity = 0
    /\ total_filled = 0
    /\ remaining = 0
    /\ iterations = 0
    /\ current_order_id = 0
    /\ current_order_price = 0
    /\ best_price = 0
    /\ filled = 0
    /\ order_start = 0
    /\ now = 0
    /\ exit = ""
    /\ last_status = ""
    /\ orders = << >>
    /\ lastReq = NoRequest
    /\ placeCalls = 0
    /\ lastCall = NoCall
    /\ result = NoResult

\* the same, as the effect of a step
ResetLocals ==
    /\ rounded_qty' = 0
    /\ split_quantities' = << >>
    /\ remaining_value' = 0
    /\ split_price' = 0
    /\ clip_i' = 0
    /\ agg_filled' = 0
    /\ agg_iterations' = 0
    /\ clip_results' = << >>
    /\ target_quantity' = 0
    /\ total_filled' = 0
    /\ remaining' = 0
    /\ iterations' = 0
    /\ current_order_id' = 0
    /\ current_order_price' = 0
    /\ best_price' = 0
    /\ filled' = 0
    /\ order_start' = 0
    /\ now' = 0
    /\ exit' = ""
    /\ last_status' = ""
    /\ orders' = << >>
    /\ lastReq' = NoRequest
    /\ placeCalls' = 0
    /\ lastCall' = NoCall
    /\ result' = NoResult

\* mutant: the loop gives up after a failed delta
AfterResult_StopOnFailed(st, more) ==
    IF more /\ st # "FAILED" THEN "start" ELSE "all_done"

\* execute_all: the for loop after results.append(result)
AfterResult(st, more) == IF more THEN "start" ELSE "all_done"

\* execute_all: execute_delta has returned; append, go to the next delta
ExecuteAllNext ==
    /\ pc = "returned"
    /\ results' = Append(results, [ symbol |-> symbol, result |-> result ])
    /\ LET i == Len(results) + 2
           nextPc == AfterResult(result.status, i <= Len(deltas))
       IN  /\ pc' = nextPc
           /\ symbol' = IF nextPc = "start" THEN deltas[i][1] ELSE symbol
           /\ delta' = IF nextPc = "start" THEN deltas[i][2] ELSE delta
    \* the call's frame is gone; the next delta is another pair's book
    /\ ResetLocals
    /\ UNCHANGED << use_maker_order, use_market_order, config, deltas,
                    is_running, fn_in, fn_out >>

Engine ==
    \/ ExecuteAllNext
    \/ ExecuteDeltaStart
    \/ ExecuteDeltaDepth
    \/ SplitStep
    \/ ClipStart
    \/ ClipReturn
    \/ LoopTop
    \/ ReplaceQuery
    \/ ReplaceCancel
    \/ ReplaceRequery
    \/ PlaceOrder
    \/ WaitPoll
    \/ WaitBook
    \/ TimeoutQuery
    \/ TimeoutCancel
    \/ TimeoutRequery
    \/ Handler
    \/ MarketExecuteDelta

Exchange ==
    \/ ExchangeFill
    \/ ExchangeEnd
    \/ ExchangePurge

Next == Engine \/ Exchange

Spec == Init /\ [][Next]_vars

\* the engine's task is scheduled until it returns
FairSpec == Spec /\ WF_vars(Engine)

\* execute_all on a list of deltas: <<symbol, delta>> pairs
DeltaLists ==
    { << >>,
      << << "SOL", 150 >> >>,
      << << "SOL", 150 >>, << "ETH", -20 >> >>,
      << << "SOL", -40 >>, << "SOL", 150 >> >> }

InitAll ==
    /\ deltas \in DeltaLists
    /\ use_maker_order \in BOOLEAN
    /\ use_market_order = TRUE
    /\ pc = IF deltas = << >> THEN "all_done" ELSE "start"
    /\ symbol = IF deltas = << >> THEN "SOL" ELSE deltas[1][1]
    /\ delta = IF deltas = << >> THEN 0 ELSE deltas[1][2]
    /\ config = DefaultConfig
    /\ results = << >>
    /\ is_running = TRUE
    /\ fn_in = NoFn
    /\ fn_out = NoFn
    /\ InitLocals

AllSpec == InitAll /\ [][Next]_vars

\* one execute_delta call with the executor configured with cfg
InitWith(cfg) ==
    /\ symbol \in Symbols
    /\ use_maker_order \in BOOLEAN
    /\ use_market_order \in BOOLEAN
    /\ use_maker_order => use_market_order
    /\ delta \in DeltaInputs
    /\ pc = "start"
    /\ config = cfg
    /\ deltas = << << symbol, delta >> >>
    /\ results = << >>
    /\ is_running = TRUE
    /\ fn_in = NoFn
    /\ fn_out = NoFn
    /\ InitLocals

\* min_remaining_ratio set to 60 %: at the scale of the inputs (clips of one
\* or two quantity steps) the ratios a live remainder can have are 1/2 and
\* above
RatioConfig == [ DefaultConfig EXCEPT !.min_remaining_ratio = 60 ]

RatioSpec == InitWith(RatioConfig) /\ [][Next]_vars

(* ------------------- helpers applied on their own --------------------- *)
\* the largest quantity _round_quantity is applied to, in quantity units
MaxRoundQuantity == 260

\* _round_quantity of either executor; "XRPUSDT" is in neither table
RoundInputs ==
    [ op : {"round"},
      executor : {"maker", "market"},
      trading_pair : {"SOLUSDT", "ETHUSDT", "BTCUSDT", "XRPUSDT"},
      quantity : 0 .. MaxRoundQuantity ]

\* _should_replace_order around a resting price of 100.00, and without one
ReplacePrices == {0, 99900, 99980, 99990, 100000, 100010, 100020, 100100}
ReplaceInputs ==
    [ op : {"replace"},
      side : {"SELL", "BUY"},
      order_price : ReplacePrices,
      current_best_price : ReplacePrices ]

\* price_tolerance values, in 1e-4: none, the default 0.0002, 1 %
ToleranceInputs == {0, PriceToleranceE4, 100}

InitFn ==
    /\ fn_in \in RoundInputs \cup ReplaceInputs
    /\ fn_out = NoFn
    /\ pc = "fn_start"
    /\ config \in { [ DefaultConfig EXCEPT !.price_tolerance = t ] :
                       t \in ToleranceInputs }
    /\ fn_in.op = "round" => config = DefaultConfig
    /\ symbol = "SOL"
    /\ delta = 0
    /\ use_maker_order = TRUE
    /\ use_market_order = TRUE
    /\ deltas = << >>
    /\ results = << >>
    /\ is_running = TRUE
    /\ InitLocals

ApplyRoundQuantity ==
    /\ pc = "fn_start"
    /\ fn_in.op = "round"
    /\ fn_out' =
          [ op |-> "round",
            value |-> IF fn_in.executor = "maker"
                      THEN _round_quantity(fn_in.trading_pair, fn_in.quantity)
                      ELSE OrderExecutor_round_quantity(fn_in.trading_pair,
                                                        fn_in.quantity) ]
    /\ pc' = "fn_done"
    /\ UNCHANGED << symbol, delta, use_maker_order, use_market_order, config,
                    deltas, results, is_running, fn_in, execVars, clipVars,
                    orders, ghostVars, result >>

ApplyShouldReplace ==
    /\ pc = "fn_start"
    /\ fn_in.op = "replace"
    /\ fn_out' =
          [ op |-> "replace",
            value |-> _should_replace_order(fn_in.side, fn_in.order_price,
                                            fn_in.current_best_price) ]
    /\ pc' = "fn_done"
    /\ UNCHANGED << symbol, delta, use_maker_order, use_market_order, config,
                    deltas, results, is_running, fn_in, execVars, clipVars,
                    orders, ghostVars, result >>

FnNext == ApplyRoundQuantity \/ ApplyShouldReplace

FnSpec == InitFn /\ [][FnNext]_vars

\* DeltaNeutralStrategy.stop, called by the application while run_once is
\* awaiting execute_all
Stop ==
    /\ InProgress
    /\ is_running
    /\ is_running' = FALSE
    /\ UNCHANGED << symbol, delta, use_maker_order, use_market_order, config,
                    deltas, results, fn_in, fn_out, pc, execVars, clipVars,
                    orders, ghostVars, result >>

StopNext == Next \/ Stop

StopSpec == InitWith(DefaultConfig) /\ [][StopNext]_vars


(* ------------------- _split_order over configurations ------------------ *)
\* the largest delta of SplitSpec, in quantity steps of SOLUSDT
MaxSplitSteps == 6

\* signed deltas from half a step to MaxSplitSteps steps, in half steps
SplitDeltas ==
    { sgn * k * (QtyStep("SOLUSDT") \div 2) :
        sgn \in {-1, 1}, k \in 1 .. 2 * MaxSplitSteps }

\* MakerOrderConfig split settings (the dataclass accepts any values): the
\* model's default in randomized and in midpoint mode, splitting disabled, a
\* window one step does not fit in (2.1 to 3.6 USD at 1.5 USD a step), a
\* narrow window in midpoint mode (2.0 to 2.5 USD), a window given with
\* its ends exchanged (random.uniform accepts them in either order), and a
\* window whose minimum is worth less than half a step (0.5 to 2.5 USD)
SplitConfigs ==
    { DefaultConfig,
      [ DefaultConfig EXCEPT !.split_order_random = FALSE ],
      [ DefaultConfig EXCEPT !.split_order_enabled = FALSE ],
      [ DefaultConfig EXCEPT !.split_order_threshold = 40 * 10 ^ 6,
                             !.split_order_min_value = 21 * 10 ^ 6,
                             !.split_order_max_value = 36 * 10 ^ 6 ],
      [ DefaultConfig EXCEPT !.split_order_threshold = 30 * 10 ^ 6,
                             !.split_order_min_value = 20 * 10 ^ 6,
                             !.split_order_max_value = 25 * 10 ^ 6,
                             !.split_order_random = FALSE ],
      [ DefaultConfig EXCEPT !.split_order_threshold = 30 * 10 ^ 6,
                             !.split_order_min_value = 40 * 10 ^ 6,
                             !.split_order_max_value = 16 * 10 ^ 6 ],
      [ DefaultConfig EXCEPT !.split_order_threshold = 30 * 10 ^ 6,
                             !.split_order_min_value = 5 * 10 ^ 6,
                             !.split_order_max_value = 25 * 10 ^ 6 ] }

InitSplit ==
    /\ symbol \in Symbols
    /\ use_maker_order = TRUE
    /\ use_market_order = TRUE
    /\ delta \in SplitDeltas
    /\ pc = "start"
    /\ config \in SplitConfigs
    /\ deltas = << << symbol, delta >> >>
    /\ results = << >>
    /\ is_running = TRUE
    /\ fn_in = NoFn
    /\ fn_out = NoFn
    /\ InitLocals

\* execute_delta up to the return of _split_order
SplitNext ==
    \/ ExecuteDeltaStart
    \/ ExecuteDeltaDepth
    \/ SplitStep

SplitSpec == InitSplit /\ [][SplitNext]_vars


(* ------------- _split_order on the 1,200 USD scenario ------------------ *)
\* The scenario at one hundredth of its size: notional 12 USD, threshold 5,
\* clips of 1 to 3 USD (_split_order's quantities depend on the values and
\* the price only through their quotients, so 12 USD at 1.50 splits into the
\* quantities of 1,200 USD at 150.00)
ScenarioNotional == 12 * 10 ^ 7

ScenarioConfig ==
    [ DefaultConfig EXCEPT !.split_order_threshold = 5 * 10 ^ 7,
                           !.split_order_min_value = 1 * 10 ^ 7,
                           !.split_order_max_value = 3 * 10 ^ 7 ]

\* prices at which a whole number of quantity steps is worth the notional:
\* 1.00, 1.50 and 1.60 (12, 8 and 7.5 units of the asset)
ScenarioPrices == { 1000, 1500, 1600 }

\* _split_order entered with quantity * price = ScenarioNotional, at the
\* head of its while loop (the threshold check is passed)
InitScenario ==
    /\ symbol \in Symbols
    /\ use_maker_order = TRUE
    /\ use_market_order = TRUE
    /\ config \in { ScenarioConfig,
                    [ ScenarioConfig EXCEPT !.split_order_random = FALSE ] }
    /\ split_price \in ScenarioPrices
    /\ rounded_qty = ScenarioNotional \div split_price
    /\ delta \in { rounded_qty, -rounded_qty }
    /\ remaining_value = ScenarioNotional
    /\ split_quantities = << >>
    /\ pc = "split"
    /\ deltas = << << symbol, delta >> >>
    /\ results = << >>
    /\ is_running = TRUE
    /\ fn_in = NoFn
    /\ fn_out = NoFn
    /\ clip_i = 0
    /\ agg_filled = 0
    /\ agg_iterations = 0
    /\ clip_results = << >>
    /\ target_quantity = 0
    /\ total_filled = 0
    /\ remaining = 0
    /\ iterations = 0
    /\ current_order_id = 0
    /\ current_order_price = 0
    /\ best_price = 0
    /\ filled = 0
    /\ order_start = 0
    /\ now = 0
    /\ exit = ""
    /\ last_status = ""
    /\ orders = << >>
    /\ lastReq = NoRequest
    /\ placeCalls = 0
    /\ lastCall = Call("get_depth", 0)
    /\ result = NoResult

ScenarioSpec == InitScenario /\ [][SplitStep]_vars


(* ---------------------------- PositionManager -------------------------- *)
\* the symbols of the maps handed to the position manager
PmSymbols == {"SOL", "ETH"}

\* PositionManager.min_order_sizes as constructed by default, and the
\* default of its lookup, in quantity units
min_order_sizes(sym) ==
    CASE sym = "SOL" -> QtyScale \div 100
      [] sym = "ETH" -> QtyScale \div 1000
      [] sym = "BTC" -> QtyScale \div 10000
      [] OTHER -> QtyScale \div 1000

\* rebalance_threshold is a float: bp is its decimal literal in 1e-4 and err
\* the sign of (the float's value - the literal).  0.0 is exact, 0.02 is
\* the double 0.020000000000000000416..., 0.03 the double
\* 0.029999999999999998889...
ThresholdInputs ==
    { [ bp |-> 0, err |-> 0 ], [ bp |-> 200, err |-> 1 ],
      [ bp |-> 300, err |-> -1 ] }

\* target.amount values: nothing to hedge, 0.5
TargetAmounts == { 0, 5000 }
\* Position.quantity values: shorts are negative
CurrentQuantities == { 0, -4899, -4900, -4901, -5000, -5150, 4900 }
\* target.price
TargetPrice == 150 * PriceScale

\* the maps from some of the symbols to values
MapsTo(values) == UNION { [ D -> values ] : D \in SUBSET PmSymbols }

TargetMaps == MapsTo([ amount : TargetAmounts, price : {TargetPrice} ])
CurrentMaps == MapsTo([ quantity : CurrentQuantities ])

PmInputs ==
    [ op : {"position_manager"},
      target_positions : TargetMaps,
      current_positions : CurrentMaps,
      rebalance_threshold : ThresholdInputs ]

\* mutant: the signed quantity is taken as it is
current_amount_Signed(current_positions, sym) ==
    IF sym \in DOMAIN current_positions
    THEN current_positions[sym].quantity ELSE 0

\* calculate_deltas: the current short, 0 without a position
current_amount(current_positions, sym) ==
    IF sym \in DOMAIN current_positions
    THEN Abs(current_positions[sym].quantity) ELSE 0

\* calculate_deltas
calculate_deltas(target_positions, current_positions) ==
    [ sym \in DOMAIN target_positions |->
        LET target == target_positions[sym]
            cur == current_amount(current_positions, sym)
        IN  [ symbol |-> sym,
              target |-> target.amount,
              current |-> cur,
              delta |-> target.amount - cur,
              delta_value_usd |-> (target.amount - cur) * target.price ] ]

\* "deviation_pct < self.rebalance_threshold", the Decimal quotient
\* num / den compared exactly with the float
BelowThreshold(num, den, th) ==
    \/ num * 10 ^ 4 < th.bp * den
    \/ num * 10 ^ 4 = th.bp * den /\ th.err > 0

\* filter_significant_deltas: the body of its loop for one symbol
IsSignificant(sym, d, target_positions, th) ==
    IF sym \notin DOMAIN target_positions THEN FALSE
    ELSE LET amount == target_positions[sym].amount
             below == IF amount > 0
                      THEN BelowThreshold(Abs(d.delta), amount, th)
                      ELSE BelowThreshold(0, 1, th)
         IN  IF below THEN FALSE
             ELSE IF Abs(d.delta) < min_order_sizes(sym) THEN FALSE
             ELSE TRUE

\* filter_significant_deltas
filter_significant_deltas(ds, target_positions, th) ==
    [ sym \in { k \in DOMAIN ds : IsSignificant(k, ds[k], target_positions, th) }
        |-> ds[sym] ]

InitPm ==
    /\ fn_in \in PmInputs
    /\ fn_out = NoFn
    /\ pc = "fn_start"
    /\ config = DefaultConfig
    /\ symbol = "SOL"
    /\ delta = 0
    /\ use_maker_order = TRUE
    /\ use_market_order = TRUE
    /\ deltas = << >>
    /\ results = << >>
    /\ is_running = TRUE
    /\ InitLocals

\* get_hedge_status: status.deltas
ApplyCalculateDeltas ==
    /\ pc = "fn_start"
    /\ fn_in.op = "position_manager"
    /\ fn_out' = [ op |-> "calculate_deltas",
                   deltas |-> calculate_deltas(fn_in.target_positions,
                                               fn_in.current_positions) ]
    /\ pc' = "fn_deltas"
    /\ UNCHANGED << symbol, delta, use_maker_order, use_market_order, config,
                    deltas, results, is_running, fn_in, execVars, clipVars,
                    orders, ghostVars, result >>

\* run_once: the deltas of the status are filtered against its targets
ApplyFilterSignificant ==
    /\ pc = "fn_deltas"
    /\ fn_out' = [ op |-> "filter_significant_deltas",
                   deltas |-> fn_out.deltas,
                   significant |->
                       filter_significant_deltas(fn_out.deltas,
                                                 fn_in.target_positions,
                                                 fn_in.rebalance_threshold) ]
    /\ pc' = "fn_done"
    /\ UNCHANGED << symbol, delta, use_maker_order, use_market_order, config,
                    deltas, results, is_running, fn_in, execVars, clipVars,
                    orders, ghostVars, result >>

PmNext == ApplyCalculateDeltas \/ ApplyFilterSignificant

PmSpec == InitPm /\ [][PmNext]_vars


(* ------------------------------ sanity -------------------------------- *)
LoopPcs == {"top", "replace_query", "replace_cancel", "replace_requery",
            "place", "wait", "wait_book", "timeout_query", "timeout_cancel",
            "timeout_requery", "handler", "clip_done"}
InLoop == pc \in LoopPcs

TypeOK ==
    /\ pc \in {"exec_depth", "split", "clip_start"} \cup IdlePcs \cup LoopPcs
    /\ now \in 0 .. TimeCap - 1
    /\ current_order_id \in 0 .. Len(orders)
    /\ Len(orders) <= MaxOrders
    /\ last_status \in {"", "NOT_FOUND", "UNKNOWN"} \cup OpenStatuses
                        \cup EndedStatuses
    /\ last_status # "" => pc \in LoopPcs
    /\ \A id \in DOMAIN orders :
         /\ orders[id].executed \in 0 .. orders[id].qty
         /\ (orders[id].status = "FILLED") <=> (orders[id].executed = orders[id].qty)


(* ------------------------------ claims -------------------------------- *)

\* C1: whenever the clip loop has returned, every order placed is ended on
\* the exchange or has had a cancel_order call issued for it.
C1_NoAbandonedOrder ==
    pc = "clip_done" =>
        \A id \in DOMAIN orders :
            IsTerminal(orders[id]) \/ orders[id].cancelIssued

\* C2: when the clip loop has returned, what the engine folded for each
\* order equals the quantity that order executed on the exchange (an order
\* the exchange no longer knows may count as fully filled).
C2_FoldEqualsExecuted ==
    pc = "clip_done" =>
        \A id \in DOMAIN orders :
            \/ orders[id].folded = orders[id].executed
            \/ orders[id].purged /\ orders[id].folded = orders[id].qty

\* C3: inside one clip's loop total_filled + remaining = target_quantity
\* and 0 <= total_filled <= target_quantity (the exchange of this model
\* never reports an executed quantity above the order's quantity).
C3_FilledWithinTarget ==
    InLoop =>
        /\ total_filled + remaining = target_quantity
        /\ 0 <= total_filled
        /\ total_filled <= target_quantity

\* C4: an order's fill is folded at most once, and an order whose fill was
\* folded is no longer in the live-order slot (all status queries go to the
\* order in the slot).
C4_FoldOnce ==
    \A id \in DOMAIN orders :
        /\ orders[id].foldCount <= 1
        /\ orders[id].foldCount = 1 => current_order_id # id

\* C4 witness: a status query of a later order, after the fill of an
\* earlier order was folded.
C4_Witness ==
    \E id \in DOMAIN orders :
        /\ orders[id].foldCount = 1
        /\ lastCall.op = "get_order"
        /\ lastCall.id \notin {0, id}


\* C5: with the engine scheduled and the clock advancing on every sleep and
\* gateway call, every clip that entered its loop leaves it and returns; and
\* a loop left without an exception was left with nothing remaining (the
\* while condition remaining > 0 is false) or the remainder rounding to
\* zero, the elapsed time above total_timeout, or
\* iterations >= max_iterations.
C5_ClipTerminates ==
    /\ (pc = "top") ~> (pc = "clip_done")
    /\ [](pc = "clip_done" /\ exit # "exception" =>
            \/ remaining <= 0
            \/ _round_quantity(trading_pair, remaining) = 0
            \/ now > TotalTimeout
            \/ iterations >= MaxIterations)

\* C5 witness: a clip left its loop on the timeout with quantity remaining
\* and iteration budget unused.
C5_Witness ==
    /\ pc = "clip_done"
    /\ exit = "timeout"
    /\ remaining > 0
    /\ iterations < MaxIterations

\* C6: one clip calls place_order at most max_iterations times.
C6_PlacementsBounded ==
    use_maker_order => placeCalls <= MaxIterations

\* C7: every order the maker path sends is LIMIT with time-in-force GTX, and
\* with the maker engine in use no other kind of order is sent.
C7_MakerOnlyPostOnly ==
    /\ lastReq.path = "maker" => lastReq.type = "LIMIT" /\ lastReq.tif = "GTX"
    /\ use_maker_order => lastReq.path \in {"", "maker"}

\* C7 witness: the maker engine re-placed an order.
C7_Witness ==
    /\ lastReq.path = "maker"
    /\ placeCalls >= 2
    /\ Len(orders) = 2

\* C8: every order sent has position side SHORT, side SELL without
\* reduce_only when delta > 0, side BUY with reduce_only when delta < 0;
\* delta +12.345 SOL sells 12.34 to open short.
C8_SignDecidesSide ==
    /\ lastReq # NoRequest =>
          /\ lastReq.position_side = "SHORT"
          /\ delta # 0
          /\ delta > 0 => lastReq.side = "SELL" /\ ~lastReq.reduce_only
          /\ delta < 0 => lastReq.side = "BUY" /\ lastReq.reduce_only
    /\ (delta = ExampleDelta /\ lastReq # NoRequest) =>
          /\ lastReq.side = "SELL"
          /\ ~lastReq.reduce_only
          /\ lastReq.quantity = 1234 * 100
    /\ SideOf(ExampleDelta) = "SELL"
    /\ ~ReduceOnlyOf(ExampleDelta)
    /\ _round_quantity(SYMBOL_MAPPING("SOL"), Abs(ExampleDelta)) = 1234 * 100

\* C8 witness: the maker engine sent a reduce-only buy for a negative delta.
C8_Witness ==
    /\ delta < 0
    /\ lastReq.path = "maker"
    /\ lastReq.side = "BUY"
    /\ lastReq.reduce_only

\* C9: when |delta| rounds to zero no gateway call is made and no order is
\* sent, and the result is SKIPPED with filled_quantity 0.
C9_ZeroQuantitySkipped ==
    _round_quantity(trading_pair, Abs(delta)) = 0 =>
        /\ lastCall = NoCall
        /\ lastReq = NoRequest
        /\ placeCalls = 0
        /\ orders = << >>
        /\ pc = "returned" =>
              result.status = "SKIPPED" /\ result.filled_quantity = 0

\* C9 witness: the maker path returned SKIPPED for a non-zero delta.
C9_Witness ==
    /\ pc = "returned"
    /\ use_maker_order
    /\ delta # 0
    /\ result.status = "SKIPPED"

\* the three-way rule of the specification, on fill_ratio = got / target
OutcomeRule(st, got, target) ==
    /\ st = "SUCCESS" <=> got * 100 >= PartialFillThresholdPct * target
    /\ st = "PARTIAL" <=> 0 < got /\ got * 100 < PartialFillThresholdPct * target
    /\ st = "FAILED" <=> got = 0

\* fills of a target of 100 on both sides of the threshold
FillPercents == {0, 1, 40, 94, 95, 96, 97, 100}

\* C10: every result of the maker execute_delta other than SKIPPED, and
\* every clip that ended without an exception, is classified by the rule.
C10_OutcomeClassification ==
    /\ (pc = "returned" /\ use_maker_order /\ result.status # "SKIPPED") =>
          OutcomeRule(result.status, result.filled_quantity,
                      result.target_quantity)
    /\ (pc = "clip_done" /\ exit # "exception") =>
          OutcomeRule(ClipStatus, total_filled, target_quantity)
    /\ \A got \in FillPercents :
          OutcomeRule(Classify(got, 100), got, 100)
    /\ Classify(100, 100) = "SUCCESS"
    /\ Classify(97, 100) = "SUCCESS"
    /\ Classify(40, 100) = "PARTIAL"
    /\ Classify(0, 100) = "FAILED"

\* C10 witness: a two-clip execution returned PARTIAL.
C10_Witness ==
    /\ pc = "returned"
    /\ use_maker_order
    /\ Len(split_quantities) = 2
    /\ result.status = "PARTIAL"

\* the target_quantity execute_delta reports for the i-th delta
ExpectedTarget(i) ==
    LET d == Abs(deltas[i][2])
        rq == _round_quantity(SYMBOL_MAPPING(deltas[i][1]), d)
    IN  IF use_maker_order /\ rq # 0 THEN rq ELSE d

\* C11: execute_all returns exactly one result per input delta, in input
\* order, whatever the outcome of each: while it runs the results are those
\* of the deltas before the one being executed, and when it has returned
\* there is one result for every delta, also after a FAILED one.
C11_OneResultPerDelta ==
    /\ Len(results) <= Len(deltas)
    /\ \A i \in DOMAIN results :
         /\ results[i].symbol = deltas[i][1]
         /\ results[i].result.target_quantity = ExpectedTarget(i)
         /\ results[i].result.status
               \in {"SUCCESS", "PARTIAL", "FAILED", "SKIPPED"}
    /\ pc = "all_done" => Len(results) = Len(deltas)
    /\ pc # "all_done" =>
         /\ Len(results) < Len(deltas)
         /\ symbol = deltas[Len(results) + 1][1]
         /\ delta = deltas[Len(results) + 1][2]

\* C11 witness: the maker path failed the first delta and filled the second.
C11_Witness ==
    /\ pc = "all_done"
    /\ use_maker_order
    /\ Len(results) = 2
    /\ results[1].result.status = "FAILED"
    /\ results[2].result.filled_quantity > 0

\* the sum of the filled quantities of the clips in rs
RECURSIVE SumFilled(_)
SumFilled(rs) ==
    IF rs = << >> THEN 0
    ELSE rs[Len(rs)].filled_quantity + SumFilled(SubSeq(rs, 1, Len(rs) - 1))

\* C12: clips run one after the other in splitter order (while clip i is in
\* its loop exactly the clips before it have returned), no clip is started
\* after a clip returned FAILED, and the aggregate filled_quantity is the sum
\* of the filled quantities of the clips that were run.
C12_ClipsSequential ==
    /\ (InLoop /\ pc # "clip_done") =>
          /\ Len(clip_results) = clip_i - 1
          /\ target_quantity = split_quantities[clip_i]
    /\ pc = "clip_start" => Len(clip_results) = clip_i
    /\ \A i \in DOMAIN clip_results :
          clip_results[i].status = "FAILED" =>
              /\ i = Len(clip_results)
              /\ pc = "returned"
    /\ (pc = "returned" /\ use_maker_order /\ result.status # "SKIPPED") =>
          /\ result.filled_quantity = SumFilled(clip_results)
          /\ Len(clip_results) <= Len(split_quantities)

\* C12 witness: the first of two clips placed an order and returned FAILED,
\* and the second clip was never started.
C12_Witness ==
    /\ pc = "returned"
    /\ Len(split_quantities) = 2
    /\ Len(clip_results) = 1
    /\ clip_results[1].status = "FAILED"
    /\ Len(orders) >= 1

\* C13: no order is placed for a clip whose unfilled remainder is below
\* min_remaining_ratio of its target quantity.
C13_NoOrderBelowMinRemaining ==
    (use_maker_order /\ lastCall.op = "place_order") =>
        remaining * 100 >= config.min_remaining_ratio * target_quantity

\* C14: once stop has been signalled the engine starts no further clip and
\* places no further order.
C14_NoWorkAfterStop ==
    [][~is_running => (clip_i' <= clip_i /\ placeCalls' <= placeCalls)]_vars

\* the book has moved in the order's favour
Favorable(sd, order_price, best) ==
    IF sd = "SELL" THEN best > order_price ELSE best < order_price

\* C15: with a non-zero resting price, _should_replace_order returns true
\* whenever the book has moved favourably (SELL: best ask above the resting
\* price, BUY: best bid below it), whatever the size of the move and the
\* value of price_tolerance; a sell resting at 100.00 with best ask 100.02 is
\* replaced.
C15_FavorableChase ==
    (pc = "fn_done" /\ fn_in.op = "replace") =>
        /\ (fn_in.order_price # 0
              /\ Favorable(fn_in.side, fn_in.order_price,
                           fn_in.current_best_price)) => fn_out.value
        /\ (fn_in.side = "SELL" /\ fn_in.order_price = 100000
              /\ fn_in.current_best_price = 100020) => fn_out.value

\* C15 witness: a favourable move smaller than a tolerance of 1 % replaced.
C15_Witness ==
    /\ pc = "fn_done"
    /\ fn_in.op = "replace"
    /\ fn_in.side = "BUY"
    /\ fn_in.order_price = 100000
    /\ fn_in.current_best_price = 99990
    /\ config.price_tolerance = 100
    /\ fn_out.value

\* C16: when the book has not moved favourably, _should_replace_order
\* returns true iff |best - resting| / resting > price_tolerance; a sell
\* whose best ask fell below the resting price by less than the tolerance is
\* not replaced, and a resting price of 0 is never replaced.
C16_ToleranceRule ==
    (pc = "fn_done" /\ fn_in.op = "replace") =>
        LET p == fn_in.order_price
            b == fn_in.current_best_price
        IN  /\ p = 0 => ~fn_out.value
            /\ (p # 0 /\ ~Favorable(fn_in.side, p, b)) =>
                  (fn_out.value <=>
                     Abs(b - p) * 10 ^ 4 > config.price_tolerance * p)
            /\ (fn_in.side = "SELL" /\ p # 0 /\ b < p
                  /\ (p - b) * 10 ^ 4 < config.price_tolerance * p) =>
                  ~fn_out.value

\* C16 witness: a sell resting at 100.00 with the best ask at 99.98, a drift
\* of exactly the default tolerance, was not replaced.
C16_Witness ==
    /\ pc = "fn_done"
    /\ fn_in.op = "replace"
    /\ fn_in.side = "SELL"
    /\ fn_in.order_price = 100000
    /\ fn_in.current_best_price = 99980
    /\ config.price_tolerance = PriceToleranceE4
    /\ ~fn_out.value

\* C17: _round_quantity never rounds up: the result r for a quantity q >= 0
\* satisfies r <= q, and q - r is less than one step when r > 0.
C17_RoundingFloors ==
    (pc = "fn_done" /\ fn_in.op = "round") =>
        /\ fn_out.value <= fn_in.quantity
        /\ fn_out.value > 0 =>
              fn_in.quantity - fn_out.value < QtyStep(fn_in.trading_pair)

\* C18: _round_quantity returns 0 or a whole multiple of the pair's step
\* that is at least the pair's minimum order quantity.
C18_ZeroOrAtLeastMinimum ==
    (pc = "fn_done" /\ fn_in.op = "round") =>
        \/ fn_out.value = 0
        \/ /\ fn_out.value % QtyStep(fn_in.trading_pair) = 0
           /\ fn_out.value >= MIN_QUANTITY(fn_in.trading_pair)

\* C18 witness: a quantity between 0 and the minimum plus half a step was
\* rounded to the minimum by the market executor.
C18_Witness ==
    /\ pc = "fn_done"
    /\ fn_in.op = "round"
    /\ fn_in.executor = "market"
    /\ fn_in.trading_pair = "SOLUSDT"
    /\ fn_in.quantity = 60
    /\ fn_out.value = MIN_QUANTITY("SOLUSDT")


(* ------------------------- C19, C20: _split_order ---------------------- *)
RECURSIVE SumQty(_)
SumQty(qs) ==
    IF qs = << >> THEN 0 ELSE qs[Len(qs)] + SumQty(SubSeq(qs, 1, Len(qs) - 1))

\* _split_order went through its while loop (the order was not below the
\* threshold) and has returned
SplitReturned ==
    /\ pc = "clip_start"
    /\ split_price > 0
    /\ config.split_order_enabled
    /\ rounded_qty * split_price >= config.split_order_threshold

\* C19: for every rounded input quantity, price and split configuration, in
\* randomized mode for every draw and in midpoint mode, the clip quantities
\* _split_order has collected, and those it returns, sum to no more than the
\* input quantity.
C19_ClipsSumWithinInput ==
    pc \in {"split", "clip_start"} =>
        /\ SumQty(split_quantities) <= rounded_qty
        /\ \A i \in DOMAIN split_quantities : split_quantities[i] > 0

\* a split into three clips or more, and a split under the exchanged window
\* whose draw of 4.0 USD was cut to the two steps that remained
C19_Witness ==
    /\ SplitReturned
    /\ \/ Len(split_quantities) >= 3
       \/ /\ config.split_order_min_value > config.split_order_max_value
          /\ Len(split_quantities) >= 2
          /\ SumQty(split_quantities) = rounded_qty

\* C20: for an order whose notional reaches the threshold, every clip
\* _split_order returns except the final one has notional within
\* [split_order_min_value, split_order_max_value].
C20_ClipNotionalWithinWindow ==
    (SplitReturned
       /\ config.split_order_min_value <= config.split_order_max_value) =>
        \A i \in 1 .. Len(split_quantities) - 1 :
            /\ split_quantities[i] * split_price >= config.split_order_min_value
            /\ split_quantities[i] * split_price <= config.split_order_max_value


(* -------------------- C21: the 1,200 USD scenario ---------------------- *)
\* _split_order has returned in the scenario
ScenarioReturned ==
    /\ pc = "clip_start"
    /\ rounded_qty * split_price = ScenarioNotional
    /\ config.split_order_max_value = ScenarioConfig.split_order_max_value

C22_MarketOutcomeRule ==
    (pc = "returned" /\ ~use_maker_order /\ result.status # "SKIPPED") =>
        result.status = Classify(result.filled_quantity, result.target_quantity)


(* ----------------------- C23, C24: PositionManager --------------------- *)
\* the deviation |delta| / amount is at or above the threshold
AtOrAboveThreshold(d, amount, th) ==
    \/ Abs(d) * 10 ^ 4 > th.bp * amount
    \/ Abs(d) * 10 ^ 4 = th.bp * amount /\ th.err <= 0

\* C23: filter_significant_deltas keeps a symbol's delta iff the target
\* amount is not 0 and |delta| / target.amount >= rebalance_threshold, and
\* |delta| >= the symbol's minimum order size; a symbol with target amount
\* 0 is dropped; the kept deltas are returned unchanged.
C23_SignificanceFilter ==
    (pc = "fn_done" /\ fn_out.op = "filter_significant_deltas") =>
        /\ DOMAIN fn_out.significant =
             { sym \in DOMAIN fn_out.deltas :
                 /\ fn_in.target_positions[sym].amount > 0
                 /\ AtOrAboveThreshold(fn_out.deltas[sym].delta,
                                       fn_in.target_positions[sym].amount,
                                       fn_in.rebalance_threshold)
                 /\ Abs(fn_out.deltas[sym].delta) >= min_order_sizes(sym) }
        /\ \A sym \in DOMAIN fn_out.significant :
             fn_out.significant[sym] = fn_out.deltas[sym]

\* C24: calculate_deltas emits one PositionDelta per symbol of the target
\* map and none for other symbols, with delta = target.amount - |current
\* quantity| (0 without a position): positive exactly when the short is
\* below the target, negative exactly when above; the inputs are as they
\* were.
C24_OneDeltaPerTarget ==
    (pc = "fn_deltas" /\ fn_out.op = "calculate_deltas") =>
        /\ DOMAIN fn_out.deltas = DOMAIN fn_in.target_positions
        /\ \A sym \in DOMAIN fn_out.deltas :
             LET short == IF sym \in DOMAIN fn_in.current_positions
                          THEN IF fn_in.current_positions[sym].quantity < 0
                               THEN -fn_in.current_positions[sym].quantity
                               ELSE fn_in.current_positions[sym].quantity
                          ELSE 0
                 d == fn_out.deltas[sym]
             IN  /\ d.symbol = sym
                 /\ d.target = fn_in.target_positions[sym].amount
                 /\ d.current = short
                 /\ d.delta = fn_in.target_positions[sym].amount - short
                 /\ (d.delta > 0) <=> (short < fn_in.target_positions[sym].amount)
                 /\ (d.delta < 0) <=> (short > fn_in.target_positions[sym].amount)
        /\ fn_in \in PmInputs

\* both symbols have targets, one short is above its target and the other
\* symbol has no position; a third case has a position without a target
C24_Witness ==
    /\ pc = "fn_deltas"
    /\ fn_out.op = "calculate_deltas"
    /\ DOMAIN fn_in.target_positions = PmSymbols
    /\ DOMAIN fn_in.current_positions = {"SOL"}
    /\ fn_out.deltas["SOL"].delta < 0
    /\ fn_out.deltas["ETH"].delta = fn_in.target_positions["ETH"].amount
    /\ fn_out.deltas["ETH"].delta > 0


(* -------------------- C25 .. C30: reconciliation ----------------------- *)
QueryPcs == {"replace_query", "timeout_query"}
CancelPcs == {"replace_cancel", "timeout_cancel"}
RequeryPcs == {"replace_requery", "timeout_requery"}

\* C25: every cancel_order call of the replace path and of the order-timeout
\* path directly follows a status query of the same order, and that query did
\* not report FILLED, CANCELED, EXPIRED, REJECTED or NOT_FOUND; when the
\* query before a cancel reports one of these, the reported fill (the whole
\* remainder for NOT_FOUND) is folded and the slot cleared instead.
C25_ReconcileBeforeCancel ==
    [][ /\ (pc \in CancelPcs /\ pc' # pc) =>
              /\ lastCall' = Call("cancel_order", current_order_id)
              /\ lastCall = Call("get_order", current_order_id)
              /\ last_status \notin EndedStatuses \cup {"NOT_FOUND"}
        /\ (pc \in QueryPcs /\ pc' # pc
              /\ last_status' \in EndedStatuses \cup {"NOT_FOUND"}) =>
              /\ pc' = "top"
              /\ current_order_id' = 0
              /\ total_filled' = total_filled
                    + (IF last_status' = "NOT_FOUND" THEN remaining
                       ELSE orders[current_order_id].executed) ]_vars


\* C26: when cancel_order returns false nothing is decided by that step (no
\* fold, the slot kept), the engine's next gateway call is a status query of
\* the same order, with no placement in between, and what is folded for the
\* order follows from that query alone: the reported executed quantity (the
\* remainder when none is reported) for FILLED and NOT_FOUND, nothing
\* otherwise.
C26_RequeryAfterFailedCancel ==
    [][ /\ (pc \in CancelPcs /\ pc' \notin {pc, "handler"}
              /\ iterations' = iterations) =>
              /\ pc' \in RequeryPcs
              /\ UNCHANGED << total_filled, remaining, current_order_id >>
        /\ (pc \in RequeryPcs /\ pc' # pc) =>
              /\ lastCall = Call("cancel_order", current_order_id)
              /\ lastCall' = Call("get_order", current_order_id)
              /\ placeCalls' = placeCalls
              /\ total_filled' = total_filled
                    + (IF last_status' = "FILLED"
                       THEN orders[current_order_id].executed
                       ELSE IF last_status' = "NOT_FOUND" THEN remaining
                       ELSE 0) ]_vars

\* a cancel failed and the query after it reported the order FILLED: its
\* executed quantity is folded
C26_Witness ==
    /\ pc = "top"
    /\ lastCall.op = "get_order"
    /\ lastCall.id \in DOMAIN orders
    /\ orders[lastCall.id].cancelIssued
    /\ last_status = "FILLED"
    /\ orders[lastCall.id].folded = orders[lastCall.id].executed
    /\ total_filled > 0


\* the orders open on the exchange
OpenOrders == { id \in DOMAIN orders : IsOpen(orders[id]) }

\* C27: while the first clip of a maker execution runs (every order is that
\* clip's), at most one order is open on the exchange, and the live-order
\* slot is cleared by the loop only when the order it held is terminal on
\* the exchange.
C27_OneOpenOrder ==
    (use_maker_order /\ clip_i = 1 /\ (InLoop \/ pc = "clip_done")) =>
        /\ Cardinality(OpenOrders) <= 1
        /\ \A id \in OpenOrders : pc # "clip_done" => id = current_order_id

RECURSIVE SumExecuted(_)
SumExecuted(ords) ==
    IF ords = << >> THEN 0
    ELSE ords[Len(ords)].executed + SumExecuted(SubSeq(ords, 1, Len(ords) - 1))

\* C28: on the maker path the quantity executed on the exchange by all
\* orders of the first clip never exceeds that clip's target quantity, and
\* the quantity executed by all orders of the delta never exceeds the
\* rounded |delta|.
C28_ExecutedWithinTarget ==
    (use_maker_order /\ pc \notin IdlePcs \cup {"exec_depth", "split"}) =>
        /\ SumExecuted(orders) <= rounded_qty
        /\ (clip_i = 1 /\ (InLoop \/ pc = "clip_done")) =>
              SumExecuted(orders) <= target_quantity


\* the loop's last step was a status query that answered NOT_FOUND at one
\* of the reconciliation points (an order not yet cancelled by the loop)
FoldedNotFound ==
    /\ pc = "top"
    /\ last_status = "NOT_FOUND"
    /\ lastCall.op = "get_order"
    /\ lastCall.id \in DOMAIN orders
    /\ ~orders[lastCall.id].cancelIssued

\* C29: a NOT_FOUND answer before a replace, inside the wait window or at
\* order timeout folds the whole remainder: afterwards remaining is 0,
\* total_filled is the target and the slot is clear; the loop's next step
\* leaves through the while condition without any gateway call, and the
\* clip's status is SUCCESS with filled_quantity = target_quantity.
C29_NotFoundMeansFilled ==
    [][ /\ FoldedNotFound' =>
              /\ remaining' = 0
              /\ total_filled' = target_quantity'
              /\ total_filled' = total_filled + remaining
              /\ current_order_id' = 0
        /\ (FoldedNotFound /\ pc' # pc) =>
              /\ pc' = "clip_done"
              /\ exit' = "while"
              /\ ClipStatus' = "SUCCESS"
              /\ total_filled' = target_quantity'
              /\ UNCHANGED << orders, lastCall, lastReq, placeCalls >> ]_vars

\* NOT_FOUND was answered and the remainder folded for that order
C29_Witness ==
    /\ FoldedNotFound
    /\ orders[lastCall.id].foldCount >= 1
    /\ remaining = 0
    /\ total_filled = target_quantity


\* the orders for which cancel_order was called (the loop calls it at most
\* once per order: the slot is cleared after the call, whatever it returns)
CancelledOrders == { id \in DOMAIN orders : orders[id].cancelIssued }

\* C30: in the first clip of a maker execution (every order is that
\* clip's) iterations equals the number of cancel_order calls the loop has
\* made and that returned (a failed cancel being counted once its re-query
\* is done), and never exceeds max_iterations.
C30_IterationsCountCancels ==
    (use_maker_order /\ clip_i = 1 /\ (InLoop \/ pc = "clip_done")) =>
        /\ iterations <= MaxIterations
        /\ (pc \notin RequeryPcs \cup {"handler"} /\ exit # "exception") =>
              iterations = Cardinality(CancelledOrders)


(* --------------------- C31 .. C37: the passes of the loop -------------- *)
\* the loop's last step was a placement that left no resting order
PlacementDidNotRest ==
    /\ pc = "top"
    /\ lastCall = Call("place_order", 0)

\* C31: a placement answered REJECTED or with success = false goes back to
\* the head of the loop with the slot empty and total_filled, remaining and
\* iterations as they were; from there the loop reads the book again while
\* budget remains, and otherwise leaves by the while condition (the
\* iterations spent before the placement) or by total_timeout.
C31_RejectionNotFatal ==
    [][ /\ (pc = "place" /\ Len(orders') > Len(orders)
              /\ orders'[Len(orders')].status = "REJECTED") => pc' = "top"
        /\ (pc = "place" /\ pc' = "top") =>
              /\ current_order_id' = 0
              /\ current_order_price' = 0
              /\ UNCHANGED << total_filled, remaining, iterations >>
              /\ \A id \in DOMAIN orders' \ DOMAIN orders :
                    orders'[id].status = "REJECTED"
        /\ (PlacementDidNotRest /\ pc' # pc) =>
              IF ~LoopCondition(remaining, iterations)
              THEN pc' = "clip_done" /\ exit' = "while"
              ELSE IF TimedOut(now)
              THEN pc' = "clip_done" /\ exit' = "timeout"
              ELSE /\ lastCall'.op = "get_depth"
                   /\ pc' \in {"top", "place"}
                   /\ exit' = exit ]_vars

\* a post-only order was answered REJECTED and the loop is back at its head
C31_Witness ==
    /\ PlacementDidNotRest
    /\ Len(orders) >= 1
    /\ orders[Len(orders)].status = "REJECTED"
    /\ current_order_id = 0
    /\ LoopCondition(remaining, iterations)
    /\ ~TimedOut(now)

\* a step of the loop's head in which the book read failed
BookReadFailedAtHead ==
    /\ pc = "top"
    /\ lastCall' = CallRaised("get_depth", 0)
    /\ now' # now

\* C32: when the book read at the head of a pass fails, the loop goes back to
\* the head of the pass with iterations, total_filled, remaining, the
\* live-order id and its resting price unchanged, having made no place,
\* cancel or status call; the failure does not end the clip.
C32_BookFailureRetries ==
    [][ /\ (pc = "top" /\ now' # now) =>
              /\ lastCall'.op = "get_depth"
              /\ pc' # "handler"
        /\ BookReadFailedAtHead =>
              /\ pc' = "top"
              /\ UNCHANGED << iterations, total_filled, remaining,
                              current_order_id, current_order_price,
                              orders, placeCalls, lastReq, exit, result >>
              /\ now' > now ]_vars

\* the book read failed at the head of a pass while an order was live
C32_Witness ==
    /\ pc = "top"
    /\ lastCall = CallRaised("get_depth", 0)
    /\ current_order_id # 0
    /\ IsOpen(orders[current_order_id])
    /\ exit = ""

\* the positions inside the wait window of a live order
WaitPcs == {"wait", "wait_book"}

\* C33: the wait window of a live order is left only on a polled status of
\* FILLED, CANCELED, EXPIRED, REJECTED or NOT_FOUND, or for a partially
\* filled order when the replace rule holds on a book read that succeeded, or
\* when order_timeout has elapsed; other answers and a failed book read keep
\* the window open, and the replace path never holds an order without a fill.
C33_WaitWindowExits ==
    [][ /\ (pc \in WaitPcs /\ pc' \notin WaitPcs) =>
              \/ /\ pc = "wait"
                 /\ last_status' \in EndedStatuses \cup {"NOT_FOUND"}
                 /\ current_order_id' = 0
                 /\ pc' = "top"
              \/ /\ pc = "wait_book"
                 /\ last_status = "PARTIALLY_FILLED"
                 /\ lastCall' = Call("get_depth", 0)
                 /\ \E b \in Books :
                       _should_replace_order(side, current_order_price,
                                             BestOf(side, b))
                 /\ now' - order_start < OrderTimeout
                 /\ current_order_id' = current_order_id
                 /\ pc' = "top"
              \/ /\ now' - order_start >= OrderTimeout
                 /\ current_order_id' = current_order_id
                 /\ pc' = "timeout_query"
        /\ (pc = "wait" /\ pc' # pc
               /\ last_status' \notin EndedStatuses \cup {"NOT_FOUND"}) =>
              /\ pc' = IF last_status' = "PARTIALLY_FILLED" THEN "wait_book"
                       ELSE IF now' - order_start < OrderTimeout THEN "wait"
                       ELSE "timeout_query"
              /\ UNCHANGED << current_order_id, current_order_price,
                              total_filled, remaining, iterations, orders >>
        /\ (pc = "wait_book" /\ lastCall' = CallRaised("get_depth", 0)) =>
              /\ pc' = IF now' - order_start < OrderTimeout THEN "wait"
                       ELSE "timeout_query"
              /\ UNCHANGED << current_order_id, current_order_price,
                              total_filled, remaining, iterations, orders >>
        /\ (pc' \in {"replace_query", "replace_cancel"}) =>
              /\ current_order_id' # 0
              /\ orders'[current_order_id'].executed > 0 ]_vars

\* a book read failed inside the window of a partially filled order and the
\* window stayed open
C33_Witness ==
    /\ pc = "wait"
    /\ lastCall = CallRaised("get_depth", 0)
    /\ current_order_id # 0
    /\ orders[current_order_id].status = "PARTIALLY_FILLED"
    /\ now - order_start < OrderTimeout

\* the positions of a pass between its book read and its placement
ReplacePcs == {"replace_query", "replace_cancel", "replace_requery"}

\* C34: a pass that begins with more than total_timeout elapsed reads no book
\* and places no order; the loop ends there and the clip's status is
\* classified from the fills folded so far. Every order is placed in a pass
\* that began within total_timeout: the body of a pass is entered only from
\* a head reached in time, and a placement only from that body.
C34_GlobalTimeout ==
    [][ /\ (pc = "top" /\ now > TotalTimeout /\ pc' # pc) =>
              /\ pc' = "clip_done"
              /\ exit' \in {"timeout", "while"}
              /\ exit' = "while" <=> ~LoopCondition(remaining, iterations)
              /\ UNCHANGED << now, lastCall, orders, placeCalls, lastReq,
                              total_filled, remaining, iterations,
                              current_order_id, target_quantity >>
        /\ (pc = "top" /\ now <= TotalTimeout
               /\ LoopCondition(remaining, iterations) /\ pc' # pc) =>
              /\ lastCall' = Call("get_depth", 0)
              /\ exit' # "timeout"
        /\ (pc = "top" /\ pc' \in ReplacePcs \cup {"place", "wait"}) =>
              now <= TotalTimeout
        /\ (pc' \in ReplacePcs /\ pc \notin ReplacePcs) => pc = "top"
        /\ (pc' = "place" /\ pc # "place") => pc \in ReplacePcs \cup {"top"}
        /\ (InLoop /\ Len(orders') > Len(orders)) => pc = "place"
        /\ (pc = "clip_done" /\ exit = "timeout" /\ pc' # pc) =>
              clip_results' =
                 Append(clip_results,
                        [ status |-> Classify(total_filled, target_quantity),
                          filled_quantity |-> total_filled,
                          error |-> "" ]) ]_vars

\* the loop was stopped by the global timeout with part of the clip filled
C34_Witness ==
    /\ pc = "clip_done"
    /\ exit = "timeout"
    /\ now > TotalTimeout
    /\ total_filled > 0
    /\ total_filled < target_quantity

\* target_quantity minus total_filled, rounded as the engine rounds
RoundedUnfilled == _round_quantity(trading_pair, target_quantity - total_filled)

\* C35: every order of a clip is for the rounded remaining quantity
\* (target_quantity minus total_filled, rounded to the pair's precision),
\* which is positive and at least the pair's minimum quantity; an order is
\* placed only with the live-order slot empty; and when the remaining
\* quantity rounds to zero the loop ends without placing.
C35_FullRoundedRemaining ==
    [][ /\ (InLoop /\ placeCalls' > placeCalls) =>
              /\ pc = "place"
              /\ current_order_id = 0
              /\ remaining = target_quantity - total_filled
              /\ lastReq'.quantity = RoundedUnfilled
              /\ lastReq'.quantity >= MIN_QUANTITY(trading_pair)
              /\ lastReq'.quantity > 0
              /\ lastReq'.quantity % QtyStep(trading_pair) = 0
              /\ \A id \in DOMAIN orders' \ DOMAIN orders :
                    orders'[id].qty = RoundedUnfilled
        /\ (InLoop /\ pc' \in {"place", "wait"} /\ pc' # pc) =>
              /\ RoundedUnfilled' > 0
              /\ pc' = "place" <=> current_order_id' = 0
        /\ (pc \in ReplacePcs \cup {"top"} /\ pc' = "clip_done"
               /\ exit' \notin {"while", "timeout"}) =>
              /\ exit' = "min"
              /\ RoundedUnfilled' = 0
              /\ UNCHANGED << placeCalls, lastReq >>
              /\ Len(orders') = Len(orders) ]_vars

\* an order was placed for a remainder that is part of the clip, after a fill
C35_Witness ==
    /\ pc = "wait"
    /\ lastCall = Call("place_order", 0)
    /\ total_filled > 0
    /\ current_order_id = Len(orders)
    /\ orders[current_order_id].qty = lastReq.quantity
    /\ lastReq.quantity # target_quantity - total_filled

\* the prices a pass can quote: the best asks when delta opens short (SELL),
\* the best bids when it closes short (BUY), on the pair's price grid
QuotesOfPass ==
    LET unit == PriceScale \div (10 ^ price_precision(trading_pair))
    IN  { RoundHalfEven(IF delta > 0 THEN b[2] ELSE b[1], unit) * unit :
            b \in Books }

\* C36: every order is placed at the price read at the head of the same pass,
\* rounded to the pair's price precision: the best ask for SELL (opening
\* short), the best bid for BUY (closing short); the resting price recorded
\* for the live order is the price sent.
C36_QuoteOfThePass ==
    [][ /\ (pc = "top" /\ pc' \in ReplacePcs \cup {"place"}) =>
              /\ best_price' \in QuotesOfPass
              /\ lastCall' = Call("get_depth", 0)
        /\ (pc \in ReplacePcs /\ pc' \in ReplacePcs \cup {"place"}) =>
              best_price' = best_price
        /\ (InLoop /\ placeCalls' > placeCalls) =>
              /\ pc = "place"
              /\ lastReq'.price = best_price
              /\ lastReq'.price \in QuotesOfPass
              /\ lastReq'.side = (IF delta > 0 THEN "SELL" ELSE "BUY")
              /\ lastReq'.reduce_only = (delta < 0)
              /\ pc' = "wait" =>
                    /\ current_order_id' = Len(orders')
                    /\ current_order_price' = lastReq'.price ]_vars

\* a sell order rests at the rounded best ask of a book off the price grid
C36_Witness ==
    /\ pc = "wait"
    /\ lastCall = Call("place_order", 0)
    /\ lastReq.side = "SELL"
    /\ lastReq.price = 150000
    /\ current_order_price = lastReq.price
    /\ current_order_id = Len(orders)

\* C37: when an exception escapes inside the loop, the handler calls
\* cancel_order for the live order exactly when the slot holds one, whatever
\* that cancel does the clip returns FAILED with the fills folded before the
\* exception and the exception as error, and execute_delta returns a result.
C37_HandlerBestEffort ==
    [][ /\ (pc' = "handler" /\ pc # "handler") =>
              UNCHANGED << total_filled, remaining, iterations,
                           current_order_id >>
        /\ (pc = "handler" /\ pc' # pc) =>
              /\ pc' = "clip_done"
              /\ exit' = "exception"
              /\ UNCHANGED << total_filled, remaining, iterations,
                              current_order_id, target_quantity, placeCalls >>
              /\ IF current_order_id # 0
                 THEN /\ lastCall' = Call("cancel_order", current_order_id)
                      /\ orders'[current_order_id].cancelIssued
                      /\ Len(orders') = Len(orders)
                 ELSE UNCHANGED << lastCall, orders >>
        /\ (pc = "clip_done" /\ exit = "exception" /\ pc' # pc) =>
              /\ clip_results' =
                    Append(clip_results,
                           [ status |-> "FAILED",
                             filled_quantity |-> total_filled,
                             error |-> "exception" ])
              /\ pc' = "returned"
              /\ result'.filled_quantity = agg_filled + total_filled
        /\ (pc = "clip_done" /\ exit # "exception" /\ pc' # pc) =>
              clip_results'[Len(clip_results')].error = "" ]_vars

\* the handler has cancelled the live order of a clip that already had fills
C37_Witness ==
    /\ pc = "clip_done"
    /\ exit = "exception"
    /\ total_filled > 0
    /\ current_order_id # 0
    /\ lastCall = Call("cancel_order", current_order_id)
    /\ orders[current_order_id].status = "CANCELED"

(* ------------------ C38, C39: what _split_order leaves ----------------- *)
\* the quantity _split_order has not put into a clip
DroppedQuantity == rounded_qty - SumQty(split_quantities)

\* C38: the quantity the splitter drops is less than the pair's minimum order
\* quantity.
C38_DropBelowMinimum ==
    SplitReturned =>
        /\ DroppedQuantity >= 0
        /\ DroppedQuantity < MIN_QUANTITY(trading_pair)

\* _split_order runs to its return when it is scheduled
FairSplitSpec == SplitSpec /\ WF_vars(SplitNext)

\* the window of the configuration is 0 < min <= max
WindowInOrder ==
    /\ config.split_order_min_value > 0
    /\ config.split_order_min_value <= config.split_order_max_value

\* C39: with 0 < split_order_min_value <= split_order_max_value every pass
\* of _split_order's loop either appends a clip of positive quantity and
\* strictly decreases the remaining notional, which stays non-negative, or
\* leaves the loop; and the loop is left.
C39_SplitTerminates ==
    /\ [][ (pc = "split" /\ WindowInOrder) =>
              \/ pc' = "clip_start"
              \/ /\ pc' = "split"
                 /\ Len(split_quantities') = Len(split_quantities) + 1
                 /\ split_quantities'[Len(split_quantities')] > 0
                 /\ remaining_value' < remaining_value
                 /\ remaining_value' >= 0 ]_vars
    /\ (pc = "split" /\ WindowInOrder) ~> (pc = "clip_start")

\* the loop is in its third pass or later with value still to split
C39_Witness ==
    /\ pc = "split"
    /\ WindowInOrder
    /\ config.split_order_random
    /\ Len(split_quantities) >= 2
    /\ remaining_value > config.split_order_max_value

(* ------------- C40: from the filter to the executor (run_once) --------- *)
\* the largest current short of HandoffSpec, in grains
MaxHandoffShort == 14

HandoffSymbols == {"SOL", "ETH", "BTC"}

\* half the symbol's default min_order_sizes, or one quantity unit
HandoffGrain(sym) ==
    IF min_order_sizes(sym) >= 2 THEN min_order_sizes(sym) \div 2 ELSE 1

\* one symbol with a target of nothing or of 12 grains, no position or a
\* short of 0 to MaxHandoffShort grains, and the default threshold of 2 %
HandoffInputs ==
    UNION { [ op : {"position_manager"},
              target_positions :
                 [ {sym} -> [ amount : {0, 12 * HandoffGrain(sym)},
                              price : {TargetPrice} ] ],
              current_positions :
                 [ {} -> [ quantity : {0} ] ] \cup
                 [ {sym} -> [ quantity : { 0 - k * HandoffGrain(sym) :
                                            k \in 0 .. MaxHandoffShort } ] ],
              rebalance_threshold : { [ bp |-> 200, err |-> 1 ] } ] :
            sym \in HandoffSymbols }

InitHandoff ==
    /\ fn_in \in HandoffInputs
    /\ fn_out = NoFn
    /\ pc = "fn_start"
    /\ config = DefaultConfig
    /\ symbol = "SOL"
    /\ delta = 0
    /\ use_maker_order = TRUE
    /\ use_market_order = TRUE
    /\ deltas = << >>
    /\ results = << >>
    /\ is_running = TRUE
    /\ InitLocals

\* run_once: execute_all is given the significant deltas, and execute_delta
\* is called with one of them
RunOnceHandOff ==
    /\ pc = "fn_done"
    /\ fn_out.op = "filter_significant_deltas"
    /\ \E sym \in DOMAIN fn_out.significant :
         /\ symbol' = sym
         /\ delta' = fn_out.significant[sym].delta
         /\ deltas' = << << sym, fn_out.significant[sym].delta >> >>
    /\ pc' = "start"
    /\ UNCHANGED << use_maker_order, use_market_order, config, results,
                    is_running, fn_in, fn_out, execVars, clipVars, orders,
                    ghostVars, result >>

HandoffNext ==
    \/ ApplyCalculateDeltas
    \/ ApplyFilterSignificant
    \/ RunOnceHandOff
    \/ ExecuteDeltaStart

HandoffSpec == InitHandoff /\ [][HandoffNext]_vars

\* C40: with the default per-symbol settings a delta that passed
\* filter_significant_deltas does not round to zero in the executor: the
\* execute_delta call made for it does not return SKIPPED.
C40_SignificantNotSkipped ==
    /\ pc = "returned" => result.status # "SKIPPED"
    /\ pc = "exec_depth" => rounded_qty >= MIN_QUANTITY(trading_pair)

====
